---- MODULE Spec2Model ----
(***************************************************************************)
(* Model of fullon_ticker_service: the per-exchange ExchangeHandler        *)
(* (exchange_handler.py) and the TickerDaemon lifecycle (daemon.py).       *)
(*                                                                         *)
(* The program runs on one asyncio event loop.  A coroutine runs without   *)
(* interruption from one `await` on the exchange client (or on the         *)
(* factory, the cache, a sleep) to the next, so every action below is one  *)
(* such run: "the pending await of task t returns, and t runs up to its    *)
(* next await".  The field pc of a task names the await it is pending on.  *)
(***************************************************************************)
EXTENDS Integers, Sequences, FiniteSets, TLC

\* The symbol universe the handler is configured with.
Symbols == {"BTC/USDT", "ETH/USDT"}

\* The intended symbols are a Python list; the lists considered keep their
\* symbols in this order.
ListOrder == <<"BTC/USDT", "ETH/USDT">>

\* The first symbol of the list whose symbols are T (T not empty).
First(T) ==
    ListOrder[CHOOSE i \in 1..Len(ListOrder) :
                 /\ ListOrder[i] \in T
                 /\ \A j \in 1..(i - 1) : ListOrder[j] \notin T]

\* reconnect_with_backoff schedules a further attempt while the counter is
\* below this number.
MaxReconnectAttempts == 10

\* Number of calls of start, stop and update_symbols that the callers of a
\* handler make in a run; the calls may overlap in any way.
MaxCalls == 2

\* Number of failed start() runs explored.
MaxFail == 1

VARIABLES
    status,               \* ExchangeHandler._status
    reconnect_count,      \* ExchangeHandler._reconnect_count
    symbols,              \* ExchangeHandler.symbols (the intended symbols)
    handler,              \* ExchangeHandler._handler is not None
    subscription_ids,     \* ExchangeHandler._subscription_ids, in insertion order
    factory_initialized,  \* ExchangeHandler._factory_initialized
    clientConnected,      \* the exchange client holds a connection
    tasks,                \* coroutines inside start / stop / update_symbols
    nSched,               \* reconnect_with_backoff tasks created, not yet run
    nSleep,               \* reconnect_with_backoff tasks in their backoff sleep
    failures,             \* failed start() runs so far
    calls,                \* calls made by the callers so far
    lastOk,               \* per symbol: the last client call that succeeded
    daemon_status,        \* TickerDaemon._status
    running,              \* TickerDaemon._running
    exchange_handlers,    \* keys of TickerDaemon._exchange_handlers
    process_id,           \* TickerDaemon._process_id is not None
    bg_tasks,             \* _main_task, _supervision_task, _symbol_refresh_task set
    lock,                 \* TickerDaemon._lock: the caller holding it, or 0
    waiters,              \* TickerDaemon._lock: the callers queued on it
    callers,              \* the calls of TickerDaemon.start / stop
    entries,              \* process registrations not yet deregistered
    started,              \* per exchange: handlers started and not stopped
    spawned,              \* background tasks created and not finished
    hstatus,              \* per exchange: get_status() of the daemon's handler
    sup,                  \* _supervise_handlers: its pending await and loop
    nStop,                \* per exchange: stop() calls made by the supervisor
    nStart,               \* per exchange: start() calls made by the supervisor
    checked,              \* handlers the supervisor looked at in this tick
    ticks,                \* supervisor ticks so far
    ticker_callback,      \* ExchangeHandler._ticker_callback
    events,               \* the events the client delivered, in order
    procs,                \* per event: the _process_ticker coroutine
    cache,                \* TickCache: per symbol, the event whose tick it holds
    ticker_count,         \* TickerManager._ticker_count
    error_counts,         \* TickerManager._error_counts
    recovery_counts,      \* TickerManager._recovery_counts
    latency_samples,      \* TickerManager._latency_samples (lengths)
    mcalls,               \* the calls of the Ticker Manager's operations
    now,                  \* time.time(), in seconds
    last_process_update,  \* LiveTickerCollector.last_process_update.get(key, 0)
    process_ids,          \* keys of LiveTickerCollector.process_ids
    cbs,                  \* the ticker callbacks of the collector in progress
    issued,               \* per key: the times of the updates to Running issued
    refresh,              \* _symbol_refresh_loop: its pending await and loops
    hsymbols,             \* per exchange: the symbols its handler was given
    updated,              \* handlers whose update_symbols this refresh called
    upFailed,             \* handlers whose update_symbols raised in this refresh
    nRefresh,             \* refresh iterations so far
    boot,                 \* _initialize_exchange_handlers: its pending await and loop
    callLog,              \* the calls made on the handler: operation, state met, argument
    backoff_delay,        \* reconnect_with_backoff: the attempt and delay of its last sleep
    fh,                   \* the handlers of one daemon: status, _factory_initialized, pending await
    factory,              \* the ExchangeQueue factory of the process is initialized
    written,              \* per exchange, the ticks the cache stored for the Ticker Manager
    collector_running,    \* LiveTickerCollector.running
    starting,             \* the start_collection call: its pending await, the exchanges still to start, how it ended
    nStartups             \* the start-ups begun (calls of _load_data) and the start_collection calls made

hvars == <<status, reconnect_count, symbols, handler, subscription_ids,
           factory_initialized, clientConnected, tasks, nSched, nSleep,
           failures, calls, lastOk>>

dvars == <<daemon_status, running, exchange_handlers, process_id, bg_tasks,
           lock, waiters, callers, entries, started, spawned>>

svars == <<hstatus, sup, nStop, nStart, checked, ticks>>

evars == <<ticker_callback, events, procs, cache>>

tvars == <<ticker_count, error_counts, recovery_counts, latency_samples,
           mcalls>>

cvars == <<now, last_process_update, process_ids, cbs, issued>>

rvars == <<refresh, hsymbols, updated, upFailed, nRefresh>>

bvars == <<boot>>

lvars == <<callLog, backoff_delay>>

fvars == <<fh, factory>>

wvars == <<written>>

kvars == <<collector_running, starting, nStartups>>

xvars == <<svars, evars, tvars, cvars, rvars, bvars, lvars, fvars, wvars, kvars>>

\* The variables an action of one part leaves alone.
exceptS == <<hvars, dvars, evars, tvars, cvars, rvars, bvars, lvars, fvars, wvars, kvars>>

exceptE == <<hvars, dvars, svars, tvars, cvars, rvars, bvars, lvars, fvars, wvars, kvars>>

exceptT == <<hvars, dvars, svars, evars, cvars, rvars, bvars, lvars, fvars, wvars, kvars>>

exceptC == <<hvars, dvars, svars, evars, tvars, rvars, bvars, lvars, fvars, wvars, kvars>>

exceptR == <<hvars, dvars, svars, evars, tvars, cvars, bvars, lvars, fvars, wvars, kvars>>

\* The initialization is a part of the daemon's start().
exceptB == <<hvars, svars, evars, tvars, cvars, rvars, lvars, fvars, wvars, kvars>>

\* The log is written by the calls of the handler's operations.
exceptL == <<dvars, svars, evars, tvars, cvars, rvars, bvars, fvars, wvars, kvars>>

exceptF == <<hvars, dvars, svars, evars, tvars, cvars, rvars, bvars, lvars, wvars, kvars>>

exceptW == <<hvars, dvars, svars, evars, tvars, cvars, rvars, bvars, lvars, fvars, kvars>>

exceptK == <<hvars, dvars, svars, evars, tvars, cvars, rvars, bvars, lvars, fvars, wvars>>

vars == <<hvars, dvars, xvars>>

Statuses == {"disconnected", "connecting", "connected", "reconnecting", "error"}

\* Every call and every reconnection task has a slot to run in.
NTasks == MaxCalls + 2 * MaxFail + 1

TaskIds == 1..NTasks

Idle == [op |-> "idle", pc |-> "idle", recon |-> FALSE, cur |-> "none",
         res |-> "none", todo |-> {}, rem |-> {}, new |-> {},
         pos |-> 0, size0 |-> 0, owedU |-> {}, owedS |-> {}, extra |-> FALSE,
         disc |-> FALSE]

\* The fields owedU, owedS and extra of a task are its call log, kept in
\* the form the statements about calls need: the symbols of the Active
\* Subscription Set (as it was when the operation was called) that the
\* operation has still to unsubscribe, the symbols it has still to
\* subscribe, and whether it issued a call beyond those.  The field disc
\* tells whether the coroutine called disconnect(), and the field res of a
\* start that failed names the await that raised.

\* A coroutine takes the lowest free slot.
FreeSlot(t) == /\ tasks[t].op = "idle"
               /\ \A u \in TaskIds : u < t => tasks[u].op # "idle"

----------------------------------------------------------------------------
\* _subscription_ids: a dict, kept as the sequence of its entries in
\* insertion order.  An entry holds the symbol and whether the handle stored
\* for it is a subscription the client still serves.

Keys(d) == {d[i].sym : i \in 1..Len(d)}

IndexOf(d, s) == CHOOSE i \in 1..Len(d) : d[i].sym = s

\* d[s] = handle: an existing key keeps its place.
Put(d, s, live) ==
    IF s \in Keys(d)
    THEN [d EXCEPT ![IndexOf(d, s)] = [sym |-> s, live |-> live]]
    ELSE Append(d, [sym |-> s, live |-> live])

\* del d[s]
Del(d, s) == SelectSeq(d, LAMBDA e : e.sym # s)

\* The client dropped its connection: no handle is served any more.
DropAll(d) == [i \in 1..Len(d) |-> [sym |-> d[i].sym, live |-> FALSE]]

\* The client ended the subscription behind the entry at index i.
Kill(d, i) == [d EXCEPT ![i] = [sym |-> d[i].sym, live |-> FALSE]]

\* A dict iterator walks the entry table by index and a deleted entry stays
\* in the table as a dummy; the sequence has no dummies, so the index of a
\* running `for sub_id in self._subscription_ids.values()` moves with it.
AfterDel(tk, d, s) ==
    IF s \notin Keys(d) THEN tk
    ELSE [u \in TaskIds |->
            IF tk[u].op = "stop" /\ tk[u].pc = "unsubscribe"
               /\ IndexOf(d, s) <= tk[u].pos
            THEN [tk[u] EXCEPT !.pos = tk[u].pos - 1]
            ELSE tk[u]]

\* The history variable lastOk: per symbol, "sub" when the last client call
\* for it that succeeded was a subscribe_ticker, "unsub" when it was an
\* unsubscribe, "none" before either.  It is kept where the specification
\* starts it at "none" or "sub", and stays "off" otherwise.
Note(s, what) ==
    IF lastOk[s] = "off" THEN lastOk ELSE [lastOk EXCEPT ![s] = what]

----------------------------------------------------------------------------
\* The exchanges the admin user has configured.
Exchanges == {"kraken", "bitmex"}

\* Number of calls of TickerDaemon.start and TickerDaemon.stop in a run;
\* the calls may overlap in any way.
MaxDaemonCalls == 3

Callers == 1..MaxDaemonCalls

NoCall == [op |-> "none", pc |-> "idle", waited |-> FALSE]

\* TickerDaemon.__init__, lines 45-56.
DaemonInit ==
    /\ daemon_status = "stopped"
    /\ running = FALSE
    /\ exchange_handlers = {}
    /\ process_id = FALSE
    /\ bg_tasks = FALSE
    /\ lock = 0
    /\ waiters = <<>>
    /\ callers = [c \in Callers |-> NoCall]
    /\ entries = 0
    /\ started = [e \in Exchanges |-> 0]
    /\ spawned = 0

\* The supervisor loop before the daemon created it.
SupInit ==
    /\ hstatus = [e \in Exchanges |-> "disconnected"]
    /\ sup = [pc |-> "none", cur |-> "none", todo |-> <<>>]
    /\ nStop = [e \in Exchanges |-> 0]
    /\ nStart = [e \in Exchanges |-> 0]
    /\ checked = {}
    /\ ticks = 0

\* Number of events the exchange client delivers to a handler in a run.
MaxEvents == 2

EventIds == 1..MaxEvents

NoProc == [pc |-> "idle", raised |-> FALSE, tried |-> FALSE, wrote |-> FALSE,
           res |-> "none"]

\* The field raised of a _process_ticker coroutine tells whether its
\* callback raised, tried whether it called cache.set_ticker, wrote whether
\* that call stored the tick, and res how the coroutine ended.

\* ExchangeHandler.__init__, lines 50-54, with no event delivered yet and
\* an empty cache.
EventInit ==
    /\ ticker_callback = "none"
    /\ events = <<>>
    /\ procs = [i \in EventIds |-> NoProc]
    /\ cache = [s \in Symbols |-> 0]

\* Number of calls of the Ticker Manager's operations in a run; the calls
\* may overlap in any way.
MaxManagerCalls == 2

MCallIds == 1..MaxManagerCalls

NoMCall == [op |-> "none", pc |-> "idle", ex |-> "none", arg |-> "none",
            max |-> 0, retry_count |-> 0, n |-> 0, attempts |-> 0,
            fails |-> 0, sleeps |-> <<>>, errs |-> 0, recs |-> 0,
            res |-> "none"]

\* Of a call, attempts counts its invocations of process_ticker, fails
\* those that raised, sleeps lists the seconds of its sleeps, errs and recs
\* count its increments of the error and of the recovery count, and res
\* tells how it ended.

\* TickerManager.__init__, ticker_manager.py lines 29-36.
ManagerInit ==
    /\ mcalls = [c \in MCallIds |-> NoMCall]
    /\ ticker_count = [e \in Exchanges |-> 0]
    /\ error_counts = [e \in Exchanges |-> 0]
    /\ recovery_counts = [e \in Exchanges |-> 0]
    /\ latency_samples = [e \in Exchanges |-> 0]

\* Line 265: a per-subscription update is due this many seconds after the
\* last one.
RateLimit == 30

\* Number of ticker callbacks of the collector in a run; they may overlap in
\* any way.
MaxCallbacks == 2

CallbackIds == 1..MaxCallbacks

NoCallback == [pc |-> "idle", sym |-> "none", t |-> 0]

\* LiveTickerCollector.__init__, live_collector.py lines 30-36; the keys
\* are the symbols of one exchange, and the clock is past its first
\* RateLimit seconds.
CollectorInit ==
    /\ now = RateLimit
    /\ last_process_update = [s \in Symbols |-> 0]
    /\ process_ids = {}
    /\ cbs = [c \in CallbackIds |-> NoCallback]
    /\ issued = [s \in Symbols |-> <<>>]

\* The symbol refresh loop in its sleep, each handler with all the symbols.
RefreshInit ==
    /\ refresh = [pc |-> "sleep", q |-> <<>>, map |-> <<>>, todo |-> <<>>,
                  failed |-> FALSE, h0 |-> [e \in Exchanges |-> Symbols]]
    /\ hsymbols = [e \in Exchanges |-> Symbols]
    /\ updated = {}
    /\ upFailed = {}
    /\ nRefresh = 0

\* No start() has begun to initialize handlers.
NoBoot == [pc |-> "idle", todo |-> <<>>, cur |-> "none", ok |-> {},
           bad |-> {}, reads |-> 0]

BootInit == boot = NoBoot

\* No call was made on the handler.
\* The handlers of a daemon before any of them is started, and the factory
\* of the process, which no one has initialized.
FactoryInit ==
    /\ fh = [e \in Exchanges |->
               [status |-> "disconnected", fi |-> FALSE, pc |-> "idle"]]
    /\ factory = FALSE

\* No tick has been written to the cache.
WrittenInit == written = [e \in Exchanges |-> 0]

NoStart == [pc |-> "idle", todo |-> {}, loaded |-> FALSE, res |-> "none"]

\* LiveTickerCollector.__init__, live_collector.py lines 30-36, of a
\* collector that was given no symbols.
LiveInit ==
    /\ collector_running = FALSE
    /\ starting = NoStart
    /\ nStartups = [loads |-> 0, calls |-> 0]

LogInit ==
    /\ callLog = <<>>
    /\ backoff_delay = [n |-> 0, delay |-> 0]

XInit ==
    SupInit /\ EventInit /\ ManagerInit /\ CollectorInit /\ RefreshInit
    /\ LiveInit
    /\ WrittenInit
    /\ FactoryInit
    /\ LogInit
    /\ BootInit

\* ExchangeHandler.__init__, lines 38-54.
Init ==
    /\ DaemonInit
    /\ XInit
    /\ status = "disconnected"
    /\ reconnect_count = 0
    /\ symbols \in (SUBSET Symbols) \ {{}}
    /\ handler = FALSE
    /\ subscription_ids = <<>>
    /\ factory_initialized = FALSE
    /\ clientConnected = FALSE
    /\ tasks = [t \in TaskIds |-> Idle]
    /\ nSched = 0
    /\ nSleep = 0
    /\ failures = 0
    /\ calls = 0
    /\ lastOk = [s \in Symbols |-> "off"]

----------------------------------------------------------------------------
(***************************************************************************)
(* ExchangeHandler.start, lines 56-117.  B is the number of failed runs    *)
(* explored.                                                               *)
(***************************************************************************)

\* A start that goes through its sequence whatever the state.
StartNeverReturnsEarly(st) == st \notin Statuses

\* line 66: start returns at once in these states.
StartReturnsEarly(st) == st \in {"connected", "connecting"}

\* line 292: reconnect_with_backoff schedules a further attempt.
MayRetry(c) == c < MaxReconnectAttempts

\* Lines 116-117, and lines 285-299 when the start was called by
\* reconnect_with_backoff: the reconnection task is created, the exception
\* reaches the caller, and the reconnection task that was the caller creates
\* one more task or gives up.  st is the status at that moment.
StartFinishFail(t, st) ==
    LET more == tasks[t].recon /\ MayRetry(reconnect_count)
    IN  /\ nSched' = nSched + 1 + (IF more THEN 1 ELSE 0)
        /\ status' = IF tasks[t].recon /\ ~more THEN "error" ELSE st
        /\ tasks' = [tasks EXCEPT ![t] = Idle]
        /\ UNCHANGED reconnect_count

\* Lines 106-114 and _cleanup, lines 301-314: an exception in the body of
\* start, raised by the await `at`.  h and f are _handler (not None) and
\* _factory_initialized now.
StartRaise(t, at, h, f, B) ==
    /\ failures < B
    /\ failures' = failures + 1
    /\ IF h
       THEN /\ status' = "error"
            /\ tasks' = [tasks EXCEPT ![t].pc = "cl_disconnect",
                                      ![t].res = at, ![t].disc = TRUE]
            /\ UNCHANGED <<reconnect_count, nSched>>
       ELSE IF f
       THEN /\ status' = "error"
            /\ tasks' = [tasks EXCEPT ![t].pc = "cl_shutdown", ![t].res = at]
            /\ UNCHANGED <<reconnect_count, nSched>>
       ELSE StartFinishFail(t, "error")

\* Lines 87-104: the loop over the symbols still to subscribe, T, in list
\* order, and the end of a successful start; lines 279-280 when reconnect_with_backoff
\* called it.
StartContinue(t, T, h, f, B) ==
    IF T = {}
    THEN /\ status' = "connected"
         /\ reconnect_count' = IF tasks[t].recon THEN 0 ELSE reconnect_count
         /\ tasks' = [tasks EXCEPT ![t] = Idle]
         /\ UNCHANGED <<nSched, failures>>
    ELSE IF ~h
    THEN StartRaise(t, "subscribe", h, f, B)
    ELSE /\ tasks' = [tasks EXCEPT ![t].pc = "subscribe",
                                   ![t].cur = First(T),
                                   ![t].todo = T \ {First(T)}]
         /\ UNCHANGED <<status, reconnect_count, nSched, failures>>

\* Lines 66-74: the call of start up to its first await.
StartBody(t, isRecon) ==
    IF StartReturnsEarly(status)
    THEN /\ reconnect_count' = IF isRecon THEN 0 ELSE reconnect_count
         /\ UNCHANGED <<status, tasks>>
    ELSE /\ status' = "connecting"
         /\ tasks' = [tasks EXCEPT ![t] =
                [Idle EXCEPT !.op = "start", !.recon = isRecon,
                      !.pc = IF factory_initialized THEN "get_handler"
                             ELSE "init_factory"]]
         /\ UNCHANGED reconnect_count

\* Lines 66-74: start() is called and runs up to its first await.
StartCalled(t) ==
    /\ FreeSlot(t)
    /\ calls' = calls + 1
    /\ StartBody(t, FALSE)
    /\ UNCHANGED <<symbols, handler, subscription_ids, factory_initialized,
                   clientConnected, nSched, nSleep, failures, lastOk>>

\* A caller (the daemon, its supervisor loop) calls start().
CallStart(t) ==
    /\ calls < MaxCalls
    /\ StartCalled(t)
    /\ UNCHANGED <<dvars, xvars>>

\* Line 74: ExchangeQueue.initialize_factory() returns or raises.
StartInitFactoryReturn(t, B) ==
    /\ tasks[t].op = "start" /\ tasks[t].pc = "init_factory"
    /\ \/ /\ factory_initialized' = TRUE
          /\ tasks' = [tasks EXCEPT ![t].pc = "get_handler"]
          /\ UNCHANGED <<status, reconnect_count, nSched, failures>>
       \/ /\ StartRaise(t, "init_factory", handler, factory_initialized, B)
          /\ UNCHANGED factory_initialized
    /\ UNCHANGED <<symbols, handler, subscription_ids, clientConnected,
                   nSleep, calls, lastOk>>
    /\ UNCHANGED <<dvars, xvars>>

\* Lines 78-84: ExchangeQueue.get_handler() returns or raises.
StartGetHandlerReturn(t, B) ==
    /\ tasks[t].op = "start" /\ tasks[t].pc = "get_handler"
    /\ \/ /\ handler' = TRUE
          /\ tasks' = [tasks EXCEPT ![t].pc = "connect"]
          /\ UNCHANGED <<status, reconnect_count, nSched, failures>>
       \/ /\ StartRaise(t, "get_handler", handler, factory_initialized, B)
          /\ UNCHANGED handler
    /\ UNCHANGED <<symbols, subscription_ids, factory_initialized,
                   clientConnected, nSleep, calls, lastOk>>
    /\ UNCHANGED <<dvars, xvars>>

\* Lines 84-87: connect() returns or raises.
StartConnectReturn(t, B) ==
    /\ tasks[t].op = "start" /\ tasks[t].pc = "connect"
    /\ \/ /\ clientConnected' = TRUE
          /\ StartContinue(t, symbols, handler, factory_initialized, B)
       \/ /\ StartRaise(t, "connect", handler, factory_initialized, B)
          /\ UNCHANGED clientConnected
    /\ UNCHANGED <<symbols, handler, subscription_ids, factory_initialized,
                   nSleep, calls, lastOk>>
    /\ UNCHANGED <<dvars, xvars>>

\* Lines 93-97: subscribe_ticker() returns a handle, which is recorded, or
\* raises; a client without a connection raises.
StartSubscribeReturn(t, B) ==
    /\ tasks[t].op = "start" /\ tasks[t].pc = "subscribe"
    /\ \/ /\ clientConnected
          /\ subscription_ids' = Put(subscription_ids, tasks[t].cur, TRUE)
          /\ lastOk' = Note(tasks[t].cur, "sub")
          /\ StartContinue(t, tasks[t].todo, handler, factory_initialized, B)
       \/ /\ StartRaise(t, "subscribe", handler, factory_initialized, B)
          /\ UNCHANGED <<subscription_ids, lastOk>>
    /\ UNCHANGED <<symbols, handler, factory_initialized, clientConnected,
                   nSleep, calls>>
    /\ UNCHANGED <<dvars, xvars>>

\* _cleanup, lines 303-309: disconnect() returns or raises (ignored).
StartCleanupDisconnectReturn(t) ==
    /\ tasks[t].op = "start" /\ tasks[t].pc = "cl_disconnect"
    /\ \/ /\ clientConnected' = FALSE
          /\ subscription_ids' = DropAll(subscription_ids)
       \/ UNCHANGED <<clientConnected, subscription_ids>>
    /\ IF factory_initialized
       THEN /\ tasks' = [tasks EXCEPT ![t].pc = "cl_shutdown"]
            /\ UNCHANGED <<status, reconnect_count, nSched>>
       ELSE StartFinishFail(t, status)
    /\ UNCHANGED <<symbols, handler, factory_initialized, nSleep, failures,
                   calls, lastOk>>
    /\ UNCHANGED <<dvars, xvars>>

\* _cleanup, lines 309-314: shutdown_factory() returns or raises (ignored).
StartCleanupShutdownReturn(t) ==
    /\ tasks[t].op = "start" /\ tasks[t].pc = "cl_shutdown"
    /\ \/ factory_initialized' = FALSE
       \/ UNCHANGED factory_initialized
    /\ StartFinishFail(t, status)
    /\ UNCHANGED <<symbols, handler, subscription_ids, clientConnected,
                   nSleep, failures, calls, lastOk>>
    /\ UNCHANGED <<dvars, xvars>>

----------------------------------------------------------------------------
(***************************************************************************)
(* ExchangeHandler.reconnect_with_backoff, lines 250-299.                  *)
(***************************************************************************)

\* Lines 260-274: a created task runs up to its backoff sleep.
ReconBegun ==
    /\ nSched > 0
    /\ nSched' = nSched - 1
    /\ nSleep' = nSleep + 1
    /\ status' = "reconnecting"
    /\ reconnect_count' = reconnect_count + 1
    /\ UNCHANGED <<symbols, handler, subscription_ids, factory_initialized,
                   clientConnected, tasks, failures, calls, lastOk>>

ReconBegin == ReconBegun /\ UNCHANGED <<dvars, xvars>>

Min(a, b) == IF a <= b THEN a ELSE b

\* A delay that doubles without a cap.
BackoffDelayUncapped(n) == 2 ^ n

\* Line 264: backoff_delay = min(2 ** self._reconnect_count, 60), in
\* seconds.
BackoffDelay(n) == Min(2 ^ n, 60)

\* Lines 260-274, with the delay of the sleep, computed from the counter
\* as line 261 incremented it.
ReconSleep ==
    /\ ReconBegun
    /\ backoff_delay' = [n |-> reconnect_count',
                         delay |-> BackoffDelay(reconnect_count')]
    /\ UNCHANGED callLog
    /\ UNCHANGED exceptL

\* Lines 274-280: the sleep ends and the task calls start().
ReconWake ==
    /\ nSleep > 0
    /\ nSleep' = nSleep - 1
    /\ IF StartReturnsEarly(status)
       THEN /\ reconnect_count' = 0
            /\ UNCHANGED <<status, tasks>>
       ELSE \E t \in TaskIds : FreeSlot(t) /\ StartBody(t, TRUE)
    /\ UNCHANGED <<symbols, handler, subscription_ids, factory_initialized,
                   clientConnected, nSched, failures, calls, lastOk>>
    /\ UNCHANGED <<dvars, xvars>>

----------------------------------------------------------------------------
(***************************************************************************)
(* ExchangeHandler.stop, lines 119-169.                                    *)
(***************************************************************************)

\* Outcomes of unsubscribe(handle) on the entry at index i of d: the call
\* returns, and a connected client that served the handle serves it no
\* more, or the call raises.  The pair is <<result, the dict afterwards>>
\* (the dict changes only in what the client serves).
UnsubscribeOutcomes(d, i) ==
    { <<"ok", IF clientConnected /\ d[i].live THEN Kill(d, i) ELSE d>>,
      <<"fail", d>> }

\* Lines 163-165: the finally block.
StopFinally(t, tk) ==
    /\ status' = "disconnected"
    /\ handler' = FALSE
    /\ tasks' = [tk EXCEPT ![t] = Idle]

\* Lines 155-161: clear the dict, then shut the factory down; r is the task
\* record of the stop.
StopClear(t, r) ==
    /\ subscription_ids' = <<>>
    /\ IF factory_initialized
       THEN /\ tasks' = [tasks EXCEPT ![t] = [r EXCEPT !.pc = "shutdown"]]
            /\ UNCHANGED <<status, handler>>
       ELSE StopFinally(t, tasks)

\* Lines 135-147: one step of the loop over _subscription_ids.values(), for
\* the task record r (the iterator's index and the size it expects), up to
\* the next await.  A dict whose size changed raises RuntimeError out of the
\* loop, past the clean-up, into the finally block.  With _handler None each
\* remaining unsubscribe and the disconnect raise AttributeError, which the
\* inner handlers log.
StopLoop(t, r) ==
    IF Len(subscription_ids) # r.size0
    THEN /\ StopFinally(t, tasks)
         /\ UNCHANGED subscription_ids
    ELSE IF ~handler
    THEN StopClear(t, r)
    ELSE IF r.pos < Len(subscription_ids)
    THEN \E o \in UnsubscribeOutcomes(subscription_ids, r.pos + 1) :
            /\ subscription_ids' = o[2]
            /\ tasks' = [tasks EXCEPT ![t] =
                   [r EXCEPT !.pc = "unsubscribe", !.res = o[1],
                             !.cur = subscription_ids[r.pos + 1].sym,
                             !.pos = r.pos + 1,
                             !.owedU = r.owedU \ {subscription_ids[r.pos + 1].sym},
                             !.extra = r.extra \/
                                 subscription_ids[r.pos + 1].sym \notin r.owedU]]
            /\ UNCHANGED <<status, handler>>
    ELSE /\ tasks' = [tasks EXCEPT ![t] =
                [r EXCEPT !.pc = "disconnect", !.disc = TRUE]]
         /\ UNCHANGED <<status, handler, subscription_ids>>

\* Lines 129-137: stop() is called and runs up to its first await, or
\* returns at once on a disconnected handler (line 129).
StopCalled(t) ==
    /\ FreeSlot(t)
    /\ calls' = calls + 1
    /\ IF status = "disconnected"
       THEN UNCHANGED <<status, handler, subscription_ids, tasks>>
       ELSE IF handler
       THEN StopLoop(t, [Idle EXCEPT !.op = "stop",
                               !.size0 = Len(subscription_ids),
                               !.owedU = Keys(subscription_ids)])
       ELSE StopClear(t, [Idle EXCEPT !.op = "stop",
                                !.owedU = Keys(subscription_ids)])
    /\ UNCHANGED <<reconnect_count, symbols, factory_initialized,
                   clientConnected, nSched, nSleep, failures, lastOk>>

\* A caller calls stop() on a handler that is not disconnected.
CallStop(t) ==
    /\ calls < MaxCalls
    /\ status # "disconnected"
    /\ StopCalled(t)
    /\ UNCHANGED <<dvars, xvars>>

\* Lines 137-143: unsubscribe() returned or raised; the loop goes on.
StopUnsubscribeReturn(t) ==
    /\ tasks[t].op = "stop" /\ tasks[t].pc = "unsubscribe"
    /\ StopLoop(t, tasks[t])
    /\ lastOk' = IF tasks[t].res = "ok"
                 THEN Note(tasks[t].cur, "unsub") ELSE lastOk
    /\ UNCHANGED <<reconnect_count, symbols, factory_initialized,
                   clientConnected, nSched, nSleep, failures, calls>>
    /\ UNCHANGED <<dvars, xvars>>

\* Lines 147-161: disconnect() returned, and the client dropped the
\* connection and all it served, or raised (logged).
StopDisconnectReturn(t) ==
    /\ tasks[t].op = "stop" /\ tasks[t].pc = "disconnect"
    /\ \/ clientConnected' = FALSE
       \/ UNCHANGED clientConnected
    /\ StopClear(t, tasks[t])
    /\ UNCHANGED <<reconnect_count, symbols, factory_initialized, nSched,
                   nSleep, failures, calls, lastOk>>
    /\ UNCHANGED <<dvars, xvars>>

\* Lines 160-165: shutdown_factory() returned, or raised: the exception
\* leaves stop through the finally block with the flag still set.
StopShutdownReturn(t) ==
    /\ tasks[t].op = "stop" /\ tasks[t].pc = "shutdown"
    /\ \/ factory_initialized' = FALSE
       \/ UNCHANGED factory_initialized
    /\ StopFinally(t, tasks)
    /\ UNCHANGED <<reconnect_count, symbols, subscription_ids,
                   clientConnected, nSched, nSleep, failures, calls, lastOk>>
    /\ UNCHANGED <<dvars, xvars>>

----------------------------------------------------------------------------
(***************************************************************************)
(* ExchangeHandler.update_symbols, lines 328-399.                          *)
(***************************************************************************)

\* Lines 350-351: the difference is taken against the intended list.
ToRemove(cur, new) == cur \ new
ToAdd(cur, new) == new \ cur

\* A handler that deletes the entry whether or not unsubscribe() returned.
DeletesEntryAlways(res) == res \in {"ok", "fail"}

\* Lines 356-358: the entry is deleted when unsubscribe() returned.
DeletesEntry(res) == res = "ok"

\* Lines 354-399: the two loops for the task record r, over the symbols
\* still to remove (r.rem) and to add (r.todo), up to the next await; d is
\* the dict now.  The loops run over Python sets, in any order: K are the
\* symbols the first loop passed over before the one it unsubscribes.  With
\* _handler None every call raises AttributeError, which is logged.
UpdateLoop(t, r, d, tk) ==
    IF handler /\ r.rem \cap Keys(d) # {}
    THEN \E s \in r.rem \cap Keys(d) : \E K \in SUBSET (r.rem \ Keys(d)) :
         \E o \in UnsubscribeOutcomes(d, IndexOf(d, s)) :
            /\ subscription_ids' = o[2]
            /\ tasks' = [tk EXCEPT ![t] =
                   [r EXCEPT !.pc = "unsubscribe", !.cur = s, !.res = o[1],
                             !.rem = r.rem \ ({s} \cup K),
                             !.owedU = r.owedU \ {s},
                             !.extra = r.extra \/ s \notin r.owedU]]
            /\ UNCHANGED symbols
    ELSE IF handler /\ r.todo # {}
    THEN \E s \in r.todo :
            /\ subscription_ids' = d
            /\ tasks' = [tk EXCEPT ![t] =
                   [r EXCEPT !.pc = "subscribe", !.cur = s, !.res = "none",
                             !.rem = {}, !.todo = r.todo \ {s},
                             !.owedS = r.owedS \ {s},
                             !.extra = r.extra \/ s \notin r.owedS]]
            /\ UNCHANGED symbols
    ELSE /\ subscription_ids' = d
         /\ tasks' = [tk EXCEPT ![t] = Idle]
         /\ symbols' = r.new

\* An update_symbols that leaves the intended list of a handler that is not
\* connected as it was.
IntendedKept(cur, new) == cur

\* Lines 341-344: update_symbols on a handler that is not connected stores
\* the new list as the intended one.
IntendedStored(cur, new) == new

\* Lines 341-356: update_symbols(new) is called and runs up to its first
\* await.
UpdateCalled(t, new) ==
    /\ FreeSlot(t)
    /\ calls' = calls + 1
    /\ IF status # "connected"
       THEN /\ symbols' = IntendedStored(symbols, new)
            /\ UNCHANGED <<subscription_ids, tasks>>
       ELSE UpdateLoop(t, [Idle EXCEPT !.op = "update", !.new = new,
                                 !.rem = ToRemove(symbols, new),
                                 !.todo = ToAdd(symbols, new),
                                 !.owedU = Keys(subscription_ids) \ new,
                                 !.owedS = new \ Keys(subscription_ids)],
                       subscription_ids, tasks)
    /\ UNCHANGED <<status, reconnect_count, handler, factory_initialized,
                   clientConnected, nSched, nSleep, failures, lastOk>>

\* A caller calls update_symbols(new).
CallUpdate(t, new) ==
    /\ calls < MaxCalls
    /\ UpdateCalled(t, new)
    /\ UNCHANGED <<dvars, xvars>>

\* Lines 357-370: unsubscribe() returned, and the entry is deleted (a
\* missing key raises KeyError, which is logged), or raised.
UpdateUnsubscribeReturn(t) ==
    /\ tasks[t].op = "update" /\ tasks[t].pc = "unsubscribe"
    /\ IF DeletesEntry(tasks[t].res)
       THEN UpdateLoop(t, tasks[t], Del(subscription_ids, tasks[t].cur),
                       AfterDel(tasks, subscription_ids, tasks[t].cur))
       ELSE UpdateLoop(t, tasks[t], subscription_ids, tasks)
    /\ lastOk' = IF tasks[t].res = "ok"
                 THEN Note(tasks[t].cur, "unsub") ELSE lastOk
    /\ UNCHANGED <<status, reconnect_count, handler, factory_initialized,
                   clientConnected, nSched, nSleep, failures, calls>>
    /\ UNCHANGED <<dvars, xvars>>

\* Lines 380-396: subscribe_ticker() returned a handle, which is recorded,
\* or raised; a client without a connection raises.
UpdateSubscribeReturn(t) ==
    /\ tasks[t].op = "update" /\ tasks[t].pc = "subscribe"
    /\ \/ /\ clientConnected
          /\ UpdateLoop(t, tasks[t],
                        Put(subscription_ids, tasks[t].cur, TRUE), tasks)
          /\ lastOk' = Note(tasks[t].cur, "sub")
       \/ /\ UpdateLoop(t, tasks[t], subscription_ids, tasks)
          /\ UNCHANGED lastOk
    /\ UNCHANGED <<status, reconnect_count, handler, factory_initialized,
                   clientConnected, nSched, nSleep, failures, calls>>
    /\ UNCHANGED <<dvars, xvars>>

----------------------------------------------------------------------------
\* The handler under its callers and its own reconnection tasks.
Next ==
    \/ \E t \in TaskIds : CallStart(t)
    \/ \E t \in TaskIds : StartInitFactoryReturn(t, MaxFail)
    \/ \E t \in TaskIds : StartGetHandlerReturn(t, MaxFail)
    \/ \E t \in TaskIds : StartConnectReturn(t, MaxFail)
    \/ \E t \in TaskIds : StartSubscribeReturn(t, MaxFail)
    \/ \E t \in TaskIds : StartCleanupDisconnectReturn(t)
    \/ \E t \in TaskIds : StartCleanupShutdownReturn(t)
    \/ ReconBegin
    \/ ReconWake
    \/ \E t \in TaskIds : CallStop(t)
    \/ \E t \in TaskIds : StopUnsubscribeReturn(t)
    \/ \E t \in TaskIds : StopDisconnectReturn(t)
    \/ \E t \in TaskIds : StopShutdownReturn(t)
    \/ \E t \in TaskIds, new \in SUBSET Symbols : CallUpdate(t, new)
    \/ \E t \in TaskIds : UpdateUnsubscribeReturn(t)
    \/ \E t \in TaskIds : UpdateSubscribeReturn(t)

Spec == Init /\ [][Next]_vars

\* The lifecycle alone: start, stop and the reconnection tasks.
\* update_symbols, left out, never assigns the connection state.
NextLife ==
    \/ \E t \in TaskIds : CallStart(t)
    \/ \E t \in TaskIds : StartInitFactoryReturn(t, MaxFail)
    \/ \E t \in TaskIds : StartGetHandlerReturn(t, MaxFail)
    \/ \E t \in TaskIds : StartConnectReturn(t, MaxFail)
    \/ \E t \in TaskIds : StartSubscribeReturn(t, MaxFail)
    \/ \E t \in TaskIds : StartCleanupDisconnectReturn(t)
    \/ \E t \in TaskIds : StartCleanupShutdownReturn(t)
    \/ ReconBegin
    \/ ReconWake
    \/ \E t \in TaskIds : CallStop(t)
    \/ \E t \in TaskIds : StopUnsubscribeReturn(t)
    \/ \E t \in TaskIds : StopDisconnectReturn(t)
    \/ \E t \in TaskIds : StopShutdownReturn(t)

\* The handler is constructed with the whole symbol universe.
InitLife == Init /\ symbols = Symbols

SpecLife == InitLife /\ [][NextLife]_vars

\* Number of failed start() runs explored when the exchange stays down.
MaxFailDown == 6

\* A handler that is started once while the exchange is down, and left to
\* its reconnection tasks: every connect() raises.
NextDown ==
    \/ \E t \in TaskIds : calls = 0 /\ CallStart(t)
    \/ \E t \in TaskIds : StartInitFactoryReturn(t, 0)
    \/ \E t \in TaskIds : StartGetHandlerReturn(t, 0)
    \/ \E t \in TaskIds : StartConnectReturn(t, MaxFailDown) /\ ~clientConnected'
    \/ \E t \in TaskIds : StartCleanupDisconnectReturn(t)
    \/ \E t \in TaskIds : StartCleanupShutdownReturn(t)
    \/ ReconBegin
    \/ ReconWake

SpecDown == InitLife /\ [][NextDown]_vars

\* A handler after a successful start(): connected, every intended symbol
\* subscribed, in any order of the intended list.
InitConnected ==
    /\ DaemonInit
    /\ XInit
    /\ status = "connected"
    /\ reconnect_count = 0
    /\ symbols \in (SUBSET Symbols) \ {{}}
    /\ handler = TRUE
    /\ subscription_ids \in
          {d \in UNION {[1..n -> [sym : Symbols, live : {TRUE}]] : n \in 1..Cardinality(Symbols)} :
              /\ Keys(d) = symbols
              /\ Len(d) = Cardinality(symbols)}
    /\ factory_initialized = TRUE
    /\ clientConnected = TRUE
    /\ tasks = [t \in TaskIds |-> Idle]
    /\ nSched = 0
    /\ nSleep = 0
    /\ failures = 0
    /\ calls = 0
    /\ lastOk = [s \in Symbols |-> IF s \in symbols THEN "sub" ELSE "none"]

\* update_symbols calls, one after the other or overlapping, on a handler
\* that stays connected.
NextUpdate ==
    \/ \E t \in TaskIds, new \in SUBSET Symbols : CallUpdate(t, new)
    \/ \E t \in TaskIds : UpdateUnsubscribeReturn(t)
    \/ \E t \in TaskIds : UpdateSubscribeReturn(t)

SpecUpdate == InitConnected /\ [][NextUpdate]_vars

----------------------------------------------------------------------------
(***************************************************************************)
(* TickerDaemon.start and TickerDaemon.stop, daemon.py lines 58-171, under *)
(* concurrent callers.  The handlers are taken as a whole here: a handler  *)
(* is started by _initialize_exchange_handlers and stopped by              *)
(* _stop_exchange_handlers.  The three background tasks are counted, their *)
(* loops are not run.                                                      *)
(***************************************************************************)

\* A daemon that initialises whether or not it is running.
NeverAlreadyRunning(r) == r /\ ~r

\* Line 69: `if self._running: return`.
AlreadyRunning(r) == r

\* Line 119: `if not self._running: return`.
AlreadyStopped(r) == ~r

\* The rest of stop (lines 124-171) or, for a start that failed, of
\* _cleanup (lines 588-601), from its stage `from` on, for the call record
\* r: the next await, or the end.  The stages are 1: the handlers are
\* stopped, if there are any; 2: the cancelled background tasks are awaited
\* (stop only); 3: the process is deregistered, if it was registered.  st,
\* eh and pid are _status, _exchange_handlers and _process_id now.
DContinue(c, r, from, st, eh, pid) ==
    LET nxt == IF from <= 1 /\ eh # {} THEN "stop_handlers"
               ELSE IF from <= 2 /\ r.op = "stop" /\ bg_tasks THEN "gather"
               ELSE IF from <= 3 /\ pid THEN "unregister"
               ELSE "end"
    IN  /\ process_id' = pid
        /\ IF nxt # "end"
           THEN /\ callers' = [callers EXCEPT ![c] = [r EXCEPT !.pc = nxt]]
                /\ lock' = c
                /\ daemon_status' = st
                /\ exchange_handlers' = eh
                /\ UNCHANGED <<running, bg_tasks>>
           ELSE /\ callers' = [callers EXCEPT ![c] =
                       [r EXCEPT !.pc = IF r.op = "stop" THEN "done"
                                        ELSE "raised"]]
                /\ lock' = 0
                /\ daemon_status' = IF r.op = "stop" THEN "stopped" ELSE st
                /\ exchange_handlers' = IF r.op = "stop" THEN {} ELSE eh
                /\ running' = FALSE
                /\ bg_tasks' = IF r.op = "stop" THEN FALSE ELSE bg_tasks

\* process_ticker, lines 613-626: the caller holds the lock and runs up to
\* its first await.  On a running daemon that is `await self.stop()`, whose
\* `async with self._lock` queues the caller on the lock it holds itself.
DProcessEnter(c, r) ==
    /\ lock' = c
    /\ IF running
       THEN /\ callers' = [callers EXCEPT ![c] = [r EXCEPT !.pc = "stop_lock"]]
            /\ UNCHANGED daemon_status
       ELSE /\ callers' = [callers EXCEPT ![c] = [r EXCEPT !.pc = "pt_register"]]
            /\ daemon_status' = "starting"
    /\ UNCHANGED <<running, exchange_handlers, process_id, bg_tasks>>

\* Lines 68-74 and 118-125: the caller holds the lock and runs up to its
\* first await.
DEnter(c, r) ==
    IF r.op = "process" THEN DProcessEnter(c, r)
    ELSE
    IF \/ r.op = "start" /\ AlreadyRunning(running)
       \/ r.op = "stop" /\ AlreadyStopped(running)
    THEN /\ callers' = [callers EXCEPT ![c] = [r EXCEPT !.pc = "done"]]
         /\ lock' = 0
         /\ UNCHANGED <<daemon_status, running, exchange_handlers, process_id,
                        bg_tasks>>
    ELSE IF r.op = "start"
    THEN /\ daemon_status' = "starting"
         /\ callers' = [callers EXCEPT ![c] = [r EXCEPT !.pc = "init"]]
         /\ lock' = c
         /\ UNCHANGED <<running, exchange_handlers, process_id, bg_tasks>>
    ELSE DContinue(c, r, 1, "stopping", exchange_handlers, process_id)

\* `async with self._lock`, lines 68 and 118: a free lock with no waiter is
\* taken at once, otherwise the caller queues.
DCall(c, op) ==
    /\ callers[c].pc = "idle"
    /\ IF lock = 0 /\ waiters = <<>>
       THEN /\ DEnter(c, [NoCall EXCEPT !.op = op])
            /\ UNCHANGED waiters
       ELSE /\ waiters' = Append(waiters, c)
            /\ callers' = [callers EXCEPT ![c] =
                   [op |-> op, pc |-> "wait", waited |-> TRUE]]
            /\ UNCHANGED <<daemon_status, running, exchange_handlers,
                           process_id, bg_tasks, lock>>
    /\ UNCHANGED <<entries, started, spawned>>
    /\ UNCHANGED <<hvars, xvars>>

\* The released lock goes to the first waiter.
DWake ==
    /\ lock = 0 /\ waiters # <<>>
    /\ waiters' = Tail(waiters)
    /\ DEnter(Head(waiters), callers[Head(waiters)])
    /\ UNCHANGED <<entries, started, spawned>>
    /\ UNCHANGED <<hvars, xvars>>

\* Lines 78-81 and _initialize_exchange_handlers, lines 338-475: it returns
\* with the handlers H that started, or raises after it stored them; a
\* raise runs lines 101-106.
DInitReturn(c) ==
    /\ callers[c].pc = "init"
    /\ \E H \in SUBSET Exchanges :
          /\ started' = [e \in Exchanges |->
                            started[e] + (IF e \in H THEN 1 ELSE 0)]
          /\ \/ /\ callers' = [callers EXCEPT ![c].pc = "register"]
                /\ exchange_handlers' = exchange_handlers \cup H
                /\ UNCHANGED <<daemon_status, running, process_id, bg_tasks,
                               lock>>
             \/ DContinue(c, callers[c], 1, "error",
                          exchange_handlers \cup H, process_id)
    /\ UNCHANGED <<waiters, entries, spawned>>
    /\ UNCHANGED <<hvars, xvars>>

\* Lines 84-98 and _register_process, lines 560-572: the registration
\* returns an id or raises (logged); the daemon runs.
DRegisterReturn(c) ==
    /\ callers[c].pc = "register"
    /\ \/ process_id' = TRUE /\ entries' = entries + 1
       \/ UNCHANGED <<process_id, entries>>
    /\ running' = TRUE
    /\ bg_tasks' = TRUE
    /\ spawned' = spawned + 3
    /\ daemon_status' = "running"
    /\ callers' = [callers EXCEPT ![c].pc = "done"]
    /\ lock' = 0
    /\ UNCHANGED <<exchange_handlers, waiters, started>>
    /\ UNCHANGED <<hvars, xvars>>

\* _stop_exchange_handlers, lines 477-493: every handler.stop() returned
\* or raised (logged); _cleanup then clears the handlers (line 594).
StopHandlersReturned(c) ==
    /\ callers[c].pc = "stop_handlers"
    /\ started' = [e \in Exchanges |->
                      started[e] - (IF e \in exchange_handlers THEN 1 ELSE 0)]
    /\ DContinue(c, callers[c], 2, daemon_status,
                 IF callers[c].op = "stop" THEN exchange_handlers ELSE {},
                 process_id)
    /\ UNCHANGED <<waiters, entries, spawned>>

DStopHandlersReturn(c) == StopHandlersReturned(c) /\ UNCHANGED <<hvars, xvars>>

\* Lines 127-155: the cancelled background tasks have finished.
DGatherReturn(c) ==
    /\ callers[c].pc = "gather"
    /\ spawned' = spawned - 3
    /\ DContinue(c, callers[c], 3, daemon_status, exchange_handlers,
                 process_id)
    /\ UNCHANGED <<waiters, entries, started>>
    /\ UNCHANGED <<hvars, xvars>>

\* _unregister_process, lines 574-586: the deletion returned or raised
\* (logged), and _process_id is None.
DUnregisterReturn(c) ==
    /\ callers[c].pc = "unregister"
    /\ entries' = entries - 1
    /\ DContinue(c, callers[c], 4, daemon_status, exchange_handlers, FALSE)
    /\ UNCHANGED <<waiters, started, spawned>>
    /\ UNCHANGED <<hvars, xvars>>

\* process_ticker, lines 625-640: _register_process returned an id or
\* raised (logged); the handler is created and started.
DProcessRegisterReturn(c) ==
    /\ callers[c].pc = "pt_register"
    /\ \/ process_id' = TRUE /\ entries' = entries + 1
       \/ UNCHANGED <<process_id, entries>>
    /\ callers' = [callers EXCEPT ![c].pc = "pt_start"]
    /\ UNCHANGED <<daemon_status, running, exchange_handlers, bg_tasks, lock,
                   waiters, started, spawned>>
    /\ UNCHANGED <<hvars, xvars>>

\* process_ticker, lines 640-665: handler.start() for the exchange e of the
\* symbol returned, and the daemon runs with that handler, or raised, which
\* runs lines 661-665.
DProcessStartReturn(c) ==
    /\ callers[c].pc = "pt_start"
    /\ \/ \E e \in Exchanges :
             /\ exchange_handlers' = exchange_handlers \cup {e}
             /\ started' = [started EXCEPT ![e] = started[e] + 1]
             /\ running' = TRUE
             /\ daemon_status' = "running"
             /\ callers' = [callers EXCEPT ![c].pc = "done"]
             /\ lock' = 0
             /\ UNCHANGED <<process_id, bg_tasks>>
       \/ /\ DContinue(c, callers[c], 1, "error", exchange_handlers,
                        process_id)
          /\ UNCHANGED started
    /\ UNCHANGED <<waiters, entries, spawned>>
    /\ UNCHANGED <<hvars, xvars>>

NextDaemon ==
    \/ \E c \in Callers, op \in {"start", "stop"} : DCall(c, op)
    \/ DWake
    \/ \E c \in Callers : DInitReturn(c)
    \/ \E c \in Callers : DRegisterReturn(c)
    \/ \E c \in Callers : DStopHandlersReturn(c)
    \/ \E c \in Callers : DGatherReturn(c)
    \/ \E c \in Callers : DUnregisterReturn(c)

SpecDaemon == InitLife /\ [][NextDaemon]_vars

\* The daemon under calls of start, stop and process_ticker.
NextProcess ==
    \/ \E c \in Callers, op \in {"start", "stop", "process"} : DCall(c, op)
    \/ DWake
    \/ \E c \in Callers : DInitReturn(c)
    \/ \E c \in Callers : DRegisterReturn(c)
    \/ \E c \in Callers : DStopHandlersReturn(c)
    \/ \E c \in Callers : DGatherReturn(c)
    \/ \E c \in Callers : DUnregisterReturn(c)
    \/ \E c \in Callers : DProcessRegisterReturn(c)
    \/ \E c \in Callers : DProcessStartReturn(c)

SpecProcess == InitLife /\ [][NextProcess]_vars

----------------------------------------------------------------------------
(***************************************************************************)
(* TickerDaemon._supervise_handlers, daemon.py lines 495-515, over the     *)
(* handlers of a running daemon.  Of a handler the loop uses get_status(), *)
(* stop() and start(); hstatus is the status each handler reports.         *)
(***************************************************************************)

\* Number of wake-ups of the supervisor loop explored.
MaxTicks == 2

\* list(self._exchange_handlers.items()): the handlers in dict order.
HandlerOrder == <<"kraken", "bitmex">>

\* Lines 500-507: the loop over the handlers still to look at, todo, with
\* the statuses hs, up to its next await: a handler that is not in Error is
\* passed over; on the first one in Error the loop awaits its stop().  After
\* the last handler the loop sleeps again.
RECURSIVE SupLoop(_, _, _)
SupLoop(todo, hs, chk) ==
    IF todo = <<>>
    THEN /\ sup' = [pc |-> "sleep", cur |-> "none", todo |-> <<>>]
         /\ checked' = chk
         /\ UNCHANGED nStop
    ELSE IF hs[Head(todo)] = "error"
    THEN /\ sup' = [pc |-> "stop", cur |-> Head(todo), todo |-> Tail(todo)]
         /\ checked' = chk \cup {Head(todo)}
         /\ nStop' = [nStop EXCEPT ![Head(todo)] = @ + 1]
    ELSE SupLoop(Tail(todo), hs, chk \cup {Head(todo)})

\* Lines 498-500: asyncio.sleep(10) returns while the daemon runs, and the
\* loop goes over a copy of the handler dict.
SupTick ==
    /\ sup.pc = "sleep"
    /\ running
    /\ ticks < MaxTicks
    /\ ticks' = ticks + 1
    /\ SupLoop(SelectSeq(HandlerOrder, LAMBDA e : e \in exchange_handlers),
               hstatus, {})
    /\ UNCHANGED <<hstatus, nStart>>
    /\ UNCHANGED exceptS

\* Lines 507-511 and ExchangeHandler.stop, exchange_handler.py lines
\* 129-165: stop() leaves the handler Disconnected (its finally block) and
\* returns, and the loop awaits start(), which sets Connecting; or stop()
\* raises (shutdown_factory raised, line 160), which the loop logs before
\* it goes to the next handler.
SupStopReturn ==
    /\ sup.pc = "stop"
    /\ \/ /\ hstatus' = [hstatus EXCEPT ![sup.cur] = "connecting"]
          /\ sup' = [sup EXCEPT !.pc = "start"]
          /\ nStart' = [nStart EXCEPT ![sup.cur] = @ + 1]
          /\ UNCHANGED <<nStop, checked>>
       \/ /\ hstatus' = [hstatus EXCEPT ![sup.cur] = "disconnected"]
          /\ SupLoop(sup.todo, hstatus', checked)
          /\ UNCHANGED nStart
    /\ UNCHANGED ticks
    /\ UNCHANGED exceptS

\* Lines 508-511 and ExchangeHandler.start, exchange_handler.py lines
\* 99-117: start() returns with the handler Connected, or raises with the
\* handler in Error, which the loop logs; the loop goes to the next handler.
SupStartReturn ==
    /\ sup.pc = "start"
    /\ \E st \in {"connected", "error"} :
          /\ hstatus' = [hstatus EXCEPT ![sup.cur] = st]
          /\ SupLoop(sup.todo, hstatus', checked)
    /\ UNCHANGED <<nStart, ticks>>
    /\ UNCHANGED exceptS

\* ExchangeHandler.reconnect_with_backoff, exchange_handler.py lines
\* 285-299: a handler that was reconnecting gives up and is in Error.
HandlerGivesUp(e) ==
    /\ hstatus[e] = "reconnecting"
    /\ hstatus' = [hstatus EXCEPT ![e] = "error"]
    /\ UNCHANGED <<sup, nStop, nStart, checked, ticks>>
    /\ UNCHANGED exceptS

\* A running daemon with a handler per exchange, each connected,
\* reconnecting or in Error, and the supervisor loop in its sleep.
InitSupervise ==
    /\ daemon_status = "running"
    /\ running = TRUE
    /\ exchange_handlers = Exchanges
    /\ process_id = TRUE
    /\ bg_tasks = TRUE
    /\ lock = 0
    /\ waiters = <<>>
    /\ callers = [c \in Callers |-> NoCall]
    /\ entries = 1
    /\ started = [e \in Exchanges |-> 1]
    /\ spawned = 3
    /\ hstatus \in [Exchanges -> {"connected", "reconnecting", "error"}]
    /\ sup = [pc |-> "sleep", cur |-> "none", todo |-> <<>>]
    /\ nStop = [e \in Exchanges |-> 0]
    /\ nStart = [e \in Exchanges |-> 0]
    /\ checked = {}
    /\ ticks = 0
    /\ EventInit
    /\ ManagerInit
    /\ CollectorInit
    /\ RefreshInit
    /\ LiveInit
    /\ WrittenInit
    /\ FactoryInit
    /\ LogInit
    /\ BootInit
    /\ status = "connected"
    /\ reconnect_count = 0
    /\ symbols = Symbols
    /\ handler = TRUE
    /\ subscription_ids = <<>>
    /\ factory_initialized = TRUE
    /\ clientConnected = TRUE
    /\ tasks = [t \in TaskIds |-> Idle]
    /\ nSched = 0
    /\ nSleep = 0
    /\ failures = 0
    /\ calls = 0
    /\ lastOk = [s \in Symbols |-> "off"]

NextSupervise ==
    \/ SupTick
    \/ SupStopReturn
    \/ SupStartReturn
    \/ \E e \in Exchanges : HandlerGivesUp(e)

SpecSupervise == InitSupervise /\ [][NextSupervise]_vars

----------------------------------------------------------------------------
(***************************************************************************)
(* ExchangeHandler._process_ticker, exchange_handler.py lines 180-248: the *)
(* processing of the events the exchange client delivers to the callback   *)
(* given to subscribe_ticker (lines 88-96).  An event is a dict; of its    *)
(* keys the model keeps the symbol and whether "price" and "last" are      *)
(* there.  The handler is the one of exchange HandlerExchange.             *)
(***************************************************************************)

HandlerExchange == "kraken"

EventSet == [sym : Symbols, price : BOOLEAN, last : BOOLEAN]

\* TickerManager.process_ticker, ticker_manager.py lines 50-74, up to the
\* try block, for an argument of the given shape: a dict has no attribute
\* symbol (line 54 raises AttributeError); None, a tick without symbol and
\* a tick without price return; any other tick is stored.
TMEntry(shape, hasSymbol, hasPrice) ==
    IF shape = "dict" THEN "raise"
    ELSE IF shape = "none" \/ ~hasSymbol \/ ~hasPrice THEN "return"
    ELSE "store"

\* Lines 98-105 keep this many latency samples of an exchange.
MaxLatencySamples == 1000

\* Lines 104-105: the window after an append that made its length n.
TrimLatency(n) == IF n > MaxLatencySamples THEN MaxLatencySamples ELSE n

\* A count that is set from a value read before the cache write, here the
\* count of a fresh manager.
CountedFromStale(n) == 1

\* Lines 90-92: self._ticker_count[exchange_name] += 1, with no await
\* between the read and the write.
Counted(n) == n + 1

\* ticker_manager.py lines 89-105, after the cache stored the tick: the
\* tick is counted and the latency sample appended.
TMStored(e) ==
    /\ ticker_count' = [ticker_count EXCEPT ![e] = Counted(@)]
    /\ latency_samples' = [latency_samples EXCEPT ![e] = TrimLatency(@ + 1)]

\* A Tick construction that never raises.
TickAlwaysBuilt(ev) == TRUE

\* Lines 209-220: Tick(...) reads ticker_data["symbol"] and
\* ticker_data["price"] (also as the default of "last"): a dict without
\* "price" raises KeyError, which lines 233-239 log.
TickBuilt(ev) == ev.price

\* A processing that gives up the event when its callback raised.
WritesOnlyAfterGoodCallback(raised, built) == built /\ ~raised

\* Lines 197-208: an exception of the callback is logged and the processing
\* goes on to the cache write.
WritesAfterCallback(raised, built) == built

\* Lines 208-248: after the callback (which raised or not), up to the
\* await of cache.set_ticker or to the end.
AfterCallback(i, ev, raised) ==
    IF WritesAfterCallback(raised, TickBuilt(ev))
    THEN procs' = [procs EXCEPT ![i] = [NoProc EXCEPT !.pc = "set_ticker",
                                               !.raised = raised,
                                               !.tried = TRUE]]
    ELSE procs' = [procs EXCEPT ![i] = [NoProc EXCEPT !.pc = "done",
                                               !.raised = raised,
                                               !.res = "returned"]]

\* The client delivers the next event of the stream: the coroutine runs
\* lines 193-200, up to the await of the callback.  The daemon's callback
\* (daemon.py lines 432-437) hands the dict to TickerManager.process_ticker.
EvDeliver(ev) ==
    /\ Len(events) < MaxEvents
    /\ events' = Append(events, ev)
    /\ LET i == Len(events) + 1
       IN  IF ticker_callback = "none"
           THEN AfterCallback(i, ev, FALSE)
           ELSE IF ticker_callback = "manager"
                   /\ TMEntry("dict", TRUE, ev.price) # "store"
           THEN AfterCallback(i, ev, TMEntry("dict", TRUE, ev.price) = "raise")
           ELSE procs' = [procs EXCEPT ![i] = [NoProc EXCEPT !.pc = "callback"]]
    /\ UNCHANGED <<ticker_callback, cache>>
    /\ UNCHANGED exceptE

\* Lines 199-206: the callback returned or raised.  The manager's callback
\* stored the tick and counted it (ticker_manager.py lines 82-105), or its
\* cache write failed.
EvCallbackReturn(i) ==
    /\ procs[i].pc = "callback"
    /\ \E raised \in BOOLEAN :
          /\ AfterCallback(i, events[i], raised)
          /\ IF ticker_callback = "manager" /\ ~raised
             THEN /\ TMStored(HandlerExchange)
                  /\ cache' = [cache EXCEPT ![events[i].sym] = i]
             ELSE UNCHANGED <<ticker_count, latency_samples, cache>>
    /\ UNCHANGED <<ticker_callback, events>>
    /\ UNCHANGED <<error_counts, recovery_counts, mcalls>>
    /\ UNCHANGED <<hvars, dvars, svars, cvars, rvars, bvars, lvars, fvars, wvars, kvars>>

\* Lines 222-248: cache.set_ticker(tick) stored the tick and returned, or
\* raised, which lines 241-246 log.
EvSetTickerReturn(i) ==
    /\ procs[i].pc = "set_ticker"
    /\ \/ /\ cache' = [cache EXCEPT ![events[i].sym] = i]
          /\ procs' = [procs EXCEPT ![i].pc = "done", ![i].wrote = TRUE,
                                    ![i].res = "returned"]
       \/ /\ procs' = [procs EXCEPT ![i].pc = "done", ![i].res = "returned"]
          /\ UNCHANGED cache
    /\ UNCHANGED <<ticker_callback, events>>
    /\ UNCHANGED exceptE

\* set_ticker_callback, lines 171-178: the daemon sets the callback that
\* calls the Ticker Manager (daemon.py lines 430-440), another user of the
\* handler a callback of its own.
SetTickerCallback(cb) ==
    /\ ticker_callback = "none"
    /\ ticker_callback' = cb
    /\ UNCHANGED <<events, procs, cache>>
    /\ UNCHANGED exceptE

\* A connected handler subscribed to all its symbols, before the first
\* event.
InitEvents == InitConnected /\ symbols = Symbols

NextEvents ==
    \/ \E cb \in {"custom", "manager"} : SetTickerCallback(cb)
    \/ \E ev \in EventSet : EvDeliver(ev)
    \/ \E i \in EventIds : EvCallbackReturn(i)
    \/ \E i \in EventIds : EvSetTickerReturn(i)

SpecEvents == InitEvents /\ [][NextEvents]_vars

----------------------------------------------------------------------------
(***************************************************************************)
(* TickerManager, ticker_manager.py: process_ticker (lines 38-123),        *)
(* process_ticker_batch (350-416), process_ticker_with_retry (418-460) and *)
(* process_ticker_batch_with_validation (462-545).  A latency window is    *)
(* kept as its length.                                                     *)
(***************************************************************************)

\* max_retries when the caller gives none (line 419).
DefaultMaxRetries == 3

\* Number of valid ticks of the batches explored.
MaxBatch == 2

\* The tick arguments: None, a dict, and Tick objects with or without
\* symbol and price.
TickArgs ==
    {[shape |-> "none", symbol |-> FALSE, price |-> FALSE],
     [shape |-> "dict", symbol |-> TRUE, price |-> TRUE]}
    \cup [shape : {"tick"}, symbol : BOOLEAN, price : BOOLEAN]

\* A backoff that starts at one second.
BackoffFromOne(k) == 2 ^ (k - 1)

\* Line 447: the seconds slept after the k-th failed attempt.
Backoff(k) == 2 ^ k

\* Lines 431-439: process_ticker returned to the retry wrapper; r is the
\* record of the call.
RetrySuccess(c, r) ==
    /\ recovery_counts' =
          IF r.retry_count > 0
          THEN [recovery_counts EXCEPT ![r.ex] = @ + 1]
          ELSE recovery_counts
    /\ mcalls' = [mcalls EXCEPT ![c] =
          [r EXCEPT !.pc = "done", !.res = "returned",
                    !.recs = @ + (IF r.retry_count > 0 THEN 1 ELSE 0)]]
    /\ UNCHANGED error_counts

\* Lines 440-460: process_ticker raised inside the retry wrapper.
RetryFailure(c, r) ==
    LET k == r.retry_count + 1
        f == [r EXCEPT !.retry_count = k, !.fails = @ + 1, !.errs = @ + 1]
    IN  /\ error_counts' = [error_counts EXCEPT ![r.ex] = @ + 1]
        /\ mcalls' = [mcalls EXCEPT ![c] =
              IF k < r.max
              THEN [f EXCEPT !.pc = "sleep",
                             !.sleeps = Append(@, Backoff(k))]
              ELSE [f EXCEPT !.pc = "done", !.res = "raised"]]
        /\ UNCHANGED recovery_counts

\* Lines 429-432: the loop test and the call of process_ticker up to its
\* first await.  The field arg of the record tells what process_ticker
\* does with the tick of the call (TMEntry).
RetryAttempt(c, r) ==
    IF ~(r.retry_count < r.max)
    THEN /\ mcalls' = [mcalls EXCEPT ![c] =
                [r EXCEPT !.pc = "done", !.res = "returned"]]
         /\ UNCHANGED <<error_counts, recovery_counts>>
    ELSE LET a == [r EXCEPT !.attempts = @ + 1]
         IN  IF r.arg = "store"
             THEN /\ mcalls' = [mcalls EXCEPT ![c] =
                         [a EXCEPT !.pc = "set_ticker"]]
                  /\ UNCHANGED <<error_counts, recovery_counts>>
             ELSE IF r.arg = "return" THEN RetrySuccess(c, a)
             ELSE RetryFailure(c, a)

\* process_ticker(exchange_name, tick), lines 38-83, up to the await of
\* cache.set_ticker.
TMCallProcess(c, e, tick) ==
    /\ mcalls[c].op = "none"
    /\ \A d \in MCallIds : d < c => mcalls[d].op # "none"
    /\ LET o == TMEntry(tick.shape, tick.symbol, tick.price)
           r == [NoMCall EXCEPT !.op = "process", !.ex = e, !.arg = o,
                                !.attempts = 1]
       IN  mcalls' = [mcalls EXCEPT ![c] =
              IF o = "store" THEN [r EXCEPT !.pc = "set_ticker"]
              ELSE IF o = "return"
              THEN [r EXCEPT !.pc = "done", !.res = "returned"]
              ELSE [r EXCEPT !.pc = "done", !.res = "raised", !.fails = 1]]
    /\ UNCHANGED <<ticker_count, error_counts, recovery_counts,
                   latency_samples>>
    /\ UNCHANGED exceptT

\* process_ticker_with_retry(exchange_name, tick, max_retries), lines
\* 418-432.
TMCallRetry(c, e, tick, max) ==
    /\ mcalls[c].op = "none"
    /\ \A d \in MCallIds : d < c => mcalls[d].op # "none"
    /\ RetryAttempt(c, [NoMCall EXCEPT
                           !.op = "retry", !.ex = e, !.max = max,
                           !.arg = TMEntry(tick.shape, tick.symbol,
                                           tick.price)])
    /\ UNCHANGED <<ticker_count, latency_samples>>
    /\ UNCHANGED exceptT

\* Lines 82-123: cache.set_ticker stored the tick, which is counted, or
\* raised: the handler of lines 114-123 logs (its own arguments raise
\* NameError on the name ticker_data) and an exception leaves
\* process_ticker, to the caller or to the retry wrapper.
SetTickerReturned(c, stored) ==
    /\ mcalls[c].pc = "set_ticker"
    /\ \/ /\ stored
          /\ TMStored(mcalls[c].ex)
          /\ IF mcalls[c].op = "retry"
             THEN RetrySuccess(c, mcalls[c])
             ELSE /\ mcalls' = [mcalls EXCEPT ![c].pc = "done",
                                              ![c].res = "returned"]
                  /\ UNCHANGED <<error_counts, recovery_counts>>
       \/ /\ ~stored
          /\ IF mcalls[c].op = "retry"
             THEN RetryFailure(c, mcalls[c])
             ELSE /\ mcalls' = [mcalls EXCEPT ![c].pc = "done",
                                              ![c].res = "raised",
                                              ![c].fails = 1]
                  /\ UNCHANGED <<error_counts, recovery_counts>>
          /\ UNCHANGED <<ticker_count, latency_samples>>

TMSetTickerReturn(c) ==
    /\ \E stored \in BOOLEAN : SetTickerReturned(c, stored)
    /\ UNCHANGED exceptT

\* Line 454: the backoff sleep ends and the loop goes on.
TMSleepReturn(c) ==
    /\ mcalls[c].pc = "sleep"
    /\ RetryAttempt(c, mcalls[c])
    /\ UNCHANGED <<ticker_count, latency_samples>>
    /\ UNCHANGED exceptT

\* process_ticker_batch (lines 350-391) and
\* process_ticker_batch_with_validation (lines 462-525) for a batch of
\* which n ticks are valid, up to the await of the cache.
TMCallBatch(c, e, n, op) ==
    /\ mcalls[c].op = "none"
    /\ \A d \in MCallIds : d < c => mcalls[d].op # "none"
    /\ LET r == [NoMCall EXCEPT !.op = op, !.ex = e, !.n = n]
       IN  mcalls' = [mcalls EXCEPT ![c] =
              IF n = 0 THEN [r EXCEPT !.pc = "done", !.res = "returned"]
              ELSE [r EXCEPT !.pc = "set_batch"]]
    /\ UNCHANGED <<ticker_count, error_counts, recovery_counts,
                   latency_samples>>
    /\ UNCHANGED exceptT

\* Lines 392-416 and 526-545: the cache stored the batch: the ticks are
\* counted, and process_ticker_batch appends its latency sample (line
\* 409); or the cache raised, which both operations log.
TMSetBatchReturn(c) ==
    /\ mcalls[c].pc = "set_batch"
    /\ \/ /\ ticker_count' = [ticker_count EXCEPT
                                ![mcalls[c].ex] = @ + mcalls[c].n]
          /\ latency_samples' =
                IF mcalls[c].op = "batch"
                THEN [latency_samples EXCEPT ![mcalls[c].ex] = @ + 1]
                ELSE latency_samples
       \/ UNCHANGED <<ticker_count, latency_samples>>
    /\ mcalls' = [mcalls EXCEPT ![c].pc = "done", ![c].res = "returned"]
    /\ UNCHANGED <<error_counts, recovery_counts>>
    /\ UNCHANGED exceptT

\* A Ticker Manager that has processed no tick yet, or MaxLatencySamples
\* ticks of each exchange with process_ticker.
InitManager ==
    /\ DaemonInit
    /\ SupInit
    /\ EventInit
    /\ CollectorInit
    /\ RefreshInit
    /\ LiveInit
    /\ WrittenInit
    /\ FactoryInit
    /\ LogInit
    /\ BootInit
    /\ status = "disconnected"
    /\ reconnect_count = 0
    /\ symbols = Symbols
    /\ handler = FALSE
    /\ subscription_ids = <<>>
    /\ factory_initialized = FALSE
    /\ clientConnected = FALSE
    /\ tasks = [t \in TaskIds |-> Idle]
    /\ nSched = 0
    /\ nSleep = 0
    /\ failures = 0
    /\ calls = 0
    /\ lastOk = [s \in Symbols |-> "off"]
    /\ \E w \in {0, MaxLatencySamples} :
          /\ ticker_count = [e \in Exchanges |-> w]
          /\ latency_samples = [e \in Exchanges |-> w]
    /\ error_counts = [e \in Exchanges |-> 0]
    /\ recovery_counts = [e \in Exchanges |-> 0]
    /\ mcalls = [c \in MCallIds |-> NoMCall]

NextManager ==
    \/ \E c \in MCallIds, e \in Exchanges, tick \in TickArgs :
          TMCallProcess(c, e, tick)
    \/ \E c \in MCallIds, e \in Exchanges, tick \in TickArgs,
          max \in 0..DefaultMaxRetries : TMCallRetry(c, e, tick, max)
    \/ \E c \in MCallIds, e \in Exchanges, n \in 0..MaxBatch,
          op \in {"batch", "batch_validated"} : TMCallBatch(c, e, n, op)
    \/ \E c \in MCallIds : TMSetTickerReturn(c)
    \/ \E c \in MCallIds : TMSleepReturn(c)
    \/ \E c \in MCallIds : TMSetBatchReturn(c)

SpecManager == InitManager /\ [][NextManager]_vars

\* The calls of process_ticker_with_retry alone, on a fresh Ticker Manager.
InitRetry == InitManager /\ ticker_count = [e \in Exchanges |-> 0]

NextRetry ==
    \/ \E c \in MCallIds, e \in Exchanges, tick \in TickArgs,
          max \in 0..DefaultMaxRetries : TMCallRetry(c, e, tick, max)
    \/ \E c \in MCallIds : TMSetTickerReturn(c)
    \/ \E c \in MCallIds : TMSleepReturn(c)

SpecRetry == InitRetry /\ [][NextRetry]_vars

\* The calls of process_ticker alone, on a fresh Ticker Manager.
NextCount ==
    \/ \E c \in MCallIds, e \in Exchanges, tick \in TickArgs :
          TMCallProcess(c, e, tick)
    \/ \E c \in MCallIds : TMSetTickerReturn(c)

SpecCount == InitRetry /\ [][NextCount]_vars

----------------------------------------------------------------------------
(***************************************************************************)
(* LiveTickerCollector._create_exchange_callback, live_collector.py lines  *)
(* 230-290: the ticker callback of one exchange, for ticks that carry a    *)
(* symbol.  The key of a symbol is "<exchange>:<symbol>".                  *)
(***************************************************************************)

\* Number of times the clock is moved in a run.
MaxAdvances == 2

\* The clock moves by a part of the rate limit or by all of it.
ClockSteps == {RateLimit \div 3, RateLimit}

\* _start_exchange_collector, lines 177-203: the process of the key of
\* symbol s is registered and the symbol subscribed with the shared
\* callback.
CbRegister(s) ==
    /\ s \notin process_ids
    /\ process_ids' = process_ids \cup {s}
    /\ UNCHANGED <<now, last_process_update, cbs, issued>>
    /\ UNCHANGED exceptC

\* The client calls the callback with a tick of a subscribed symbol s:
\* lines 240-256, up to the await of cache.set_ticker.
CbInvoke(c, s) ==
    /\ s \in process_ids
    /\ cbs[c].pc = "idle"
    /\ \A d \in CallbackIds : d < c => cbs[d].pc # "idle"
    /\ cbs' = [cbs EXCEPT ![c] = [NoCallback EXCEPT !.pc = "set_ticker",
                                                   !.sym = s]]
    /\ UNCHANGED <<now, last_process_update, process_ids, issued>>
    /\ UNCHANGED exceptC

\* Lines 274-287: the except block, up to the await of the update to
\* Error or to the end.
CbExcept(c) ==
    cbs' = [cbs EXCEPT ![c].pc = IF cbs[c].sym \in process_ids
                                 THEN "update_error" ELSE "done"]

\* Lines 256-272: cache.set_ticker returned, and the update to Running is
\* issued when the key is registered and the last update recorded for it
\* is RateLimit seconds old; or it raised.
CbSetTickerReturn(c) ==
    /\ cbs[c].pc = "set_ticker"
    /\ \/ IF /\ cbs[c].sym \in process_ids
             /\ now - last_process_update[cbs[c].sym] >= RateLimit
          THEN /\ cbs' = [cbs EXCEPT ![c].pc = "update", ![c].t = now]
               /\ issued' = [issued EXCEPT ![cbs[c].sym] = Append(@, now)]
          ELSE /\ cbs' = [cbs EXCEPT ![c].pc = "done"]
               /\ UNCHANGED issued
       \/ /\ CbExcept(c)
          /\ UNCHANGED issued
    /\ UNCHANGED <<now, last_process_update, process_ids>>
    /\ UNCHANGED exceptC

\* Lines 266-272: update_process returned and the time read at line 261 is
\* recorded for the key; or it raised.
CbUpdateReturn(c) ==
    /\ cbs[c].pc = "update"
    /\ \/ /\ last_process_update' =
                [last_process_update EXCEPT ![cbs[c].sym] = cbs[c].t]
          /\ cbs' = [cbs EXCEPT ![c].pc = "done"]
       \/ /\ CbExcept(c)
          /\ UNCHANGED last_process_update
    /\ UNCHANGED <<now, process_ids, issued>>
    /\ UNCHANGED exceptC

\* Lines 281-287: the update to Error returned or raised.
CbErrorUpdateReturn(c) ==
    /\ cbs[c].pc = "update_error"
    /\ cbs' = [cbs EXCEPT ![c].pc = "done"]
    /\ UNCHANGED <<now, last_process_update, process_ids, issued>>
    /\ UNCHANGED exceptC

\* time.time() moves on.
Advance(d) ==
    /\ now < RateLimit + MaxAdvances * RateLimit
    /\ now' = now + d
    /\ UNCHANGED <<last_process_update, process_ids, cbs, issued>>
    /\ UNCHANGED exceptC

\* A collector before it subscribed.
InitCollector == InitLife

NextCollector ==
    \/ \E s \in Symbols : CbRegister(s)
    \/ \E c \in CallbackIds, s \in Symbols : CbInvoke(c, s)
    \/ \E c \in CallbackIds : CbSetTickerReturn(c)
    \/ \E c \in CallbackIds : CbUpdateReturn(c)
    \/ \E c \in CallbackIds : CbErrorUpdateReturn(c)
    \/ \E d \in ClockSteps : Advance(d)

SpecCollector == InitCollector /\ [][NextCollector]_vars

----------------------------------------------------------------------------
(***************************************************************************)
(* The symbol refresh of a running daemon: TickerDaemon._symbol_refresh_loop *)
(* (daemon.py lines 517-558), TickerDaemon.refresh_symbols (lines 201-277) *)
(* and TickerManager.refresh_symbols (ticker_manager.py lines 125-168).    *)
(* Of a handler the refresh uses update_symbols; hsymbols is the symbol    *)
(* list each handler was given last.  In the record of the loop, q lists   *)
(* the exchanges still to query, map is the symbol map read so far, todo   *)
(* its entries still to go through, failed tells whether a query raised    *)
(* in this iteration and h0 is hsymbols as the iteration found it.         *)
(***************************************************************************)

\* Number of iterations of the refresh loop explored.
MaxRefreshes == 2

\* A refresh that gives up at the first handler whose update raised.
AbortAfterUpdateError(todo) == <<>>

\* daemon.py lines 250-260: the exception of update_symbols is logged and
\* the loop goes on with the remaining entries, todo.
AfterUpdateError(todo) == todo

\* daemon.py lines 225-277: the loop over the entries of the symbol map
\* still to go through, up to its next await: an exchange without a
\* handler is passed over, for the first one with a handler the loop awaits
\* update_symbols.  After the last entry the refresh returns and the
\* refresh loop sleeps.
RECURSIVE RfLoop(_, _, _)
RfLoop(r, todo, upd) ==
    IF todo = <<>>
    THEN /\ refresh' = [r EXCEPT !.pc = "sleep", !.todo = <<>>]
         /\ updated' = upd
    ELSE IF Head(todo).ex \in exchange_handlers
    THEN /\ refresh' = [r EXCEPT !.pc = "update", !.todo = todo]
         /\ updated' = upd \cup {Head(todo).ex}
    ELSE RfLoop(r, Tail(todo), upd)

\* ticker_manager.py lines 141-168: the loop over the exchanges still to
\* query, up to the await of get_by_exchange_id; after the last one the
\* map goes back to the daemon.
RfQuery(r, q) ==
    IF q = <<>>
    THEN RfLoop(r, r.map, {})
    ELSE /\ refresh' = [r EXCEPT !.pc = "symbols", !.q = q]
         /\ UNCHANGED updated

\* daemon.py lines 535-543 and 211-218: the sleep of the refresh loop ends
\* while the daemon runs and refresh_symbols asks the Ticker Manager, which
\* awaits get_cat_exchanges (ticker_manager.py lines 139-142).
RfWake ==
    /\ refresh.pc = "sleep"
    /\ running
    /\ nRefresh < MaxRefreshes
    /\ nRefresh' = nRefresh + 1
    /\ refresh' = [pc |-> "cat_exchanges", q |-> <<>>, map |-> <<>>,
                   todo |-> <<>>, failed |-> FALSE, h0 |-> hsymbols]
    /\ updated' = {}
    /\ upFailed' = {}
    /\ UNCHANGED hsymbols
    /\ UNCHANGED exceptR

\* ticker_manager.py lines 142-144 and 163-168: get_cat_exchanges returned
\* the active exchanges, or the store raised, which is logged and gives
\* the daemon an empty map.
RfCatExchangesReturn ==
    /\ refresh.pc = "cat_exchanges"
    /\ \/ \E A \in SUBSET Exchanges :
             RfQuery(refresh, SelectSeq(HandlerOrder, LAMBDA e : e \in A))
       \/ RfLoop([refresh EXCEPT !.failed = TRUE], <<>>, {})
    /\ UNCHANGED <<hsymbols, upFailed, nRefresh>>
    /\ UNCHANGED exceptR

\* ticker_manager.py lines 146-168: get_by_exchange_id returned the
\* symbols of the exchange, which enter the map, or the store raised,
\* which is logged and gives the daemon the map read so far.
RfSymbolsReturn ==
    /\ refresh.pc = "symbols"
    /\ \/ \E S \in SUBSET Symbols :
             RfQuery([refresh EXCEPT !.map =
                         Append(@, [ex |-> Head(refresh.q), syms |-> S])],
                     Tail(refresh.q))
       \/ RfLoop([refresh EXCEPT !.failed = TRUE], refresh.map, {})
    /\ UNCHANGED <<hsymbols, upFailed, nRefresh>>
    /\ UNCHANGED exceptR

\* daemon.py lines 249-260: update_symbols returned, the handler has the
\* new symbols, or raised; the loop goes on.
RfUpdateReturn ==
    /\ refresh.pc = "update"
    /\ LET en == Head(refresh.todo)
       IN  \/ /\ hsymbols' = [hsymbols EXCEPT ![en.ex] = en.syms]
              /\ RfLoop(refresh, Tail(refresh.todo), updated)
              /\ UNCHANGED upFailed
           \/ /\ upFailed' = upFailed \cup {en.ex}
              /\ RfLoop(refresh, AfterUpdateError(Tail(refresh.todo)),
                        updated)
              /\ UNCHANGED hsymbols
    /\ UNCHANGED nRefresh
    /\ UNCHANGED exceptR

\* A running daemon with a connected handler per exchange.
InitRefresh == InitSupervise /\ hstatus = [e \in Exchanges |-> "connected"]

NextRefresh ==
    \/ RfWake
    \/ RfCatExchangesReturn
    \/ RfSymbolsReturn
    \/ RfUpdateReturn

SpecRefresh == InitRefresh /\ [][NextRefresh]_vars

----------------------------------------------------------------------------
(***************************************************************************)
(* TickerDaemon.start() with _initialize_exchange_handlers await by await  *)
(* (daemon.py, lines 338-475).  The caller c of start() that holds the     *)
(* lock is at pc "init" for the whole initialization; the record boot      *)
(* names the await of the initialization it is pending on.  Its field      *)
(* reads counts the db.symbols.get_all calls of this start(), ok and bad   *)
(* the exchanges whose handler.start() returned and raised.                *)
(***************************************************************************)

\* The lists db.exchanges.get_user_exchanges can return: the configured
\* exchanges that carry an ex_id (the others are skipped, lines 392-394),
\* in any order.
ConfiguredLists ==
    {<<>>} \cup {<<e>> : e \in Exchanges}
           \cup {l \in {<<e, f>> : e \in Exchanges, f \in Exchanges} :
                     l[1] # l[2]}

\* The handler map with every created handler, started or not.
HandlersStoredBeforeStart(H, e, ok) == H \cup {e}

\* Lines 444-448: the handler is stored after `await handler.start()`
\* returned; a raise skips the store.
HandlersAfterStart(H, e, ok) == IF ok THEN H \cup {e} ELSE H

\* The initialization is inside an await of its own.
Booting == boot.pc \in {"user_exchanges", "cat", "symbols", "hstart", "db_exit"}

\* Lines 384-475: the loop goes to the next configured exchange and awaits
\* get_cat_exchanges for it, or leaves `async with DatabaseContext()`.
BootNext(b) ==
    IF b.todo = <<>>
    THEN [b EXCEPT !.pc = "db_exit", !.cur = "none"]
    ELSE [b EXCEPT !.pc = "cat", !.cur = Head(b.todo), !.todo = Tail(b.todo)]

\* Lines 101-106 of start(): an exception that leaves the initialization.
BootRaise(c, b) ==
    /\ boot' = [b EXCEPT !.pc = "raised", !.cur = "none", !.todo = <<>>]
    /\ DContinue(c, callers[c], 1, "error", exchange_handlers, process_id)
    /\ UNCHANGED <<waiters, entries, started, spawned>>

BootStays == UNCHANGED dvars

\* Lines 352-363: db.users.get_user_id returned the admin's id, returned
\* none (the initialization returns) or raised.
BootUserIdReturn(c) ==
    /\ callers[c].pc = "init" /\ ~Booting
    /\ \/ boot' = [NoBoot EXCEPT !.pc = "user_exchanges"] /\ BootStays
       \/ boot' = [NoBoot EXCEPT !.pc = "db_exit"] /\ BootStays
       \/ BootRaise(c, NoBoot)
    /\ UNCHANGED exceptB

\* Lines 368-384: db.exchanges.get_user_exchanges returned the configured
\* exchanges, or raised.
BootUserExchangesReturn(c) ==
    /\ callers[c].pc = "init" /\ boot.pc = "user_exchanges"
    /\ \/ \E cfg \in ConfiguredLists :
             /\ boot' = BootNext([boot EXCEPT !.todo = cfg])
             /\ BootStays
       \/ BootRaise(c, boot)
    /\ UNCHANGED exceptB

\* Lines 397-409: db.exchanges.get_cat_exchanges returned the catalogue
\* with the exchange, and db.symbols.get_all is called for it; or returned
\* one without it, or raised (logged, lines 458-470).
BootCatReturn(c) ==
    /\ callers[c].pc = "init" /\ boot.pc = "cat"
    /\ \/ boot' = [boot EXCEPT !.pc = "symbols", !.reads = boot.reads + 1]
       \/ boot' = BootNext(boot)
    /\ BootStays
    /\ UNCHANGED exceptB

\* Lines 409-445: db.symbols.get_all returned the symbols of the exchange,
\* and the handler is created and started; or returned none, or raised.
BootSymbolsReturn(c) ==
    /\ callers[c].pc = "init" /\ boot.pc = "symbols"
    /\ \/ boot' = [boot EXCEPT !.pc = "hstart"]
       \/ boot' = BootNext(boot)
    /\ BootStays
    /\ UNCHANGED exceptB

\* Lines 444-470: handler.start() returned and the handler is stored, or
\* raised (logged); the loop continues.
BootStartReturn(c) ==
    /\ callers[c].pc = "init" /\ boot.pc = "hstart"
    /\ \E ok \in BOOLEAN :
          /\ exchange_handlers' =
                 HandlersAfterStart(exchange_handlers, boot.cur, ok)
          /\ started' = [started EXCEPT ![boot.cur] =
                            started[boot.cur] + (IF ok THEN 1 ELSE 0)]
          /\ boot' = BootNext(
                 IF ok THEN [boot EXCEPT !.ok = boot.ok \cup {boot.cur}]
                 ELSE [boot EXCEPT !.bad = boot.bad \cup {boot.cur}])
    /\ UNCHANGED <<daemon_status, running, process_id, bg_tasks, lock,
                   waiters, callers, entries, spawned>>
    /\ UNCHANGED exceptB

\* Line 352, the end of `async with DatabaseContext()`: the initialization
\* returns to start(), which awaits _register_process (line 84); or the
\* exit raised.
BootExitReturn(c) ==
    /\ callers[c].pc = "init" /\ boot.pc = "db_exit"
    /\ \/ /\ boot' = [boot EXCEPT !.pc = "returned"]
          /\ callers' = [callers EXCEPT ![c].pc = "register"]
          /\ UNCHANGED <<daemon_status, running, exchange_handlers,
                         process_id, bg_tasks, lock, waiters, entries,
                         started, spawned>>
       \/ BootRaise(c, boot)
    /\ UNCHANGED exceptB

NextBoot ==
    \/ \E c \in Callers, op \in {"start", "stop"} : DCall(c, op)
    \/ DWake
    \/ \E c \in Callers : BootUserIdReturn(c)
    \/ \E c \in Callers : BootUserExchangesReturn(c)
    \/ \E c \in Callers : BootCatReturn(c)
    \/ \E c \in Callers : BootSymbolsReturn(c)
    \/ \E c \in Callers : BootStartReturn(c)
    \/ \E c \in Callers : BootExitReturn(c)
    \/ \E c \in Callers : DRegisterReturn(c)
    \/ \E c \in Callers : DStopHandlersReturn(c)
    \/ \E c \in Callers : DGatherReturn(c)
    \/ \E c \in Callers : DUnregisterReturn(c)

SpecBoot == InitLife /\ [][NextBoot]_vars

----------------------------------------------------------------------------
(***************************************************************************)
(* The handler with a log of the calls its callers make: callLog holds,    *)
(* per call, the operation, the connection state it met (at), its          *)
(* argument, and whether no coroutine of the handler was inside start,     *)
(* stop or update_symbols when it was made (quiet).                        *)
(***************************************************************************)

\* Number of calls of start, stop and update_symbols that are logged.
MaxNotedCalls == 3

Noted(op, arg) ==
    /\ Len(callLog) < MaxNotedCalls
    /\ callLog' = Append(callLog,
           [op |-> op, at |-> status, arg |-> arg,
            quiet |-> \A u \in TaskIds : tasks[u].op = "idle"])
    /\ UNCHANGED backoff_delay
    /\ UNCHANGED exceptL

NotedStart(t) == StartCalled(t) /\ Noted("start", {})

NotedStop(t) == StopCalled(t) /\ Noted("stop", {})

NotedUpdate(t, new) == UpdateCalled(t, new) /\ Noted("update", new)

\* start and stop called in any order and overlap, with the reconnection
\* tasks of the handler.
NextIdem ==
    \/ \E t \in TaskIds : NotedStart(t)
    \/ \E t \in TaskIds : NotedStop(t)
    \/ \E t \in TaskIds : StartInitFactoryReturn(t, MaxFail)
    \/ \E t \in TaskIds : StartGetHandlerReturn(t, MaxFail)
    \/ \E t \in TaskIds : StartConnectReturn(t, MaxFail)
    \/ \E t \in TaskIds : StartSubscribeReturn(t, MaxFail)
    \/ \E t \in TaskIds : StartCleanupDisconnectReturn(t)
    \/ \E t \in TaskIds : StartCleanupShutdownReturn(t)
    \/ ReconBegin
    \/ ReconWake
    \/ \E t \in TaskIds : StopUnsubscribeReturn(t)
    \/ \E t \in TaskIds : StopDisconnectReturn(t)
    \/ \E t \in TaskIds : StopShutdownReturn(t)

SpecIdem == InitLife /\ [][NextIdem]_vars

\* start, stop and update_symbols called in any order and overlap.
NextNoted ==
    \/ NextIdem
    \/ \E t \in TaskIds, new \in SUBSET Symbols : NotedUpdate(t, new)
    \/ \E t \in TaskIds : UpdateUnsubscribeReturn(t)
    \/ \E t \in TaskIds : UpdateSubscribeReturn(t)

SpecNoted == InitLife /\ [][NextNoted]_vars

----------------------------------------------------------------------------
\* A handler that is started once while the exchange is down, and left to
\* its reconnection tasks, with the delay of every backoff sleep.
NextBackoff ==
    \/ \E t \in TaskIds : calls = 0 /\ CallStart(t)
    \/ \E t \in TaskIds : StartInitFactoryReturn(t, 0)
    \/ \E t \in TaskIds : StartGetHandlerReturn(t, 0)
    \/ \E t \in TaskIds : StartConnectReturn(t, MaxFailDown) /\ ~clientConnected'
    \/ \E t \in TaskIds : StartCleanupDisconnectReturn(t)
    \/ \E t \in TaskIds : StartCleanupShutdownReturn(t)
    \/ ReconSleep
    \/ ReconWake

SpecBackoff == InitLife /\ [][NextBackoff]_vars

----------------------------------------------------------------------------
(***************************************************************************)
(* TickerDaemon.stop() on a running daemon whose supervisor loop goes on   *)
(* until stop() cancels it (daemon.py, lines 118-171).  The refresh loop   *)
(* is cancelled at the same point, lines 131-132; here it stays in its     *)
(* sleep.                                                                  *)
(***************************************************************************)

\* Lines 127-155: stop() has cancelled the background tasks (or they were
\* never created).
LoopsCancelled ==
    \/ ~bg_tasks
    \/ \E c \in Callers : callers[c].pc \in {"gather", "unregister"}

\* Lines 125 and 477-493, with the handlers: the stop() of every handler in
\* the map has returned, which leaves it Disconnected, unless the
\* supervisor loop has called start() on it since.
ShutStopHandlersReturn(c) ==
    /\ StopHandlersReturned(c)
    /\ \E hs \in [Exchanges -> {"disconnected", "connecting"}] :
          /\ \A e \in Exchanges :
                hs[e] = "connecting" => sup.pc = "start" /\ sup.cur = e
          /\ hstatus' = [e \in Exchanges |->
                IF e \in exchange_handlers THEN hs[e] ELSE hstatus[e]]
    /\ UNCHANGED <<sup, nStop, nStart, checked, ticks>>
    /\ UNCHANGED <<hvars, evars, tvars, cvars, rvars, bvars, lvars, fvars, wvars, kvars>>

NextShutdown ==
    \/ \E c \in Callers : DCall(c, "stop")
    \/ DWake
    \/ \E c \in Callers : ShutStopHandlersReturn(c)
    \/ \E c \in Callers : DGatherReturn(c)
    \/ \E c \in Callers : DUnregisterReturn(c)
    \/ ~LoopsCancelled /\ SupTick
    \/ ~LoopsCancelled /\ SupStopReturn
    \/ ~LoopsCancelled /\ SupStartReturn
    \/ \E e \in Exchanges : HandlerGivesUp(e)

SpecShutdown == InitSupervise /\ [][NextShutdown]_vars

----------------------------------------------------------------------------
\* A handler that is started and given new symbols, in any overlap, while
\* every subscribe and unsubscribe call succeeds: the only call that may
\* raise is connect(), which leads to the cleanup and to reconnections.
NextAccepting ==
    \/ \E t \in TaskIds : CallStart(t)
    \/ \E t \in TaskIds : StartInitFactoryReturn(t, 0)
    \/ \E t \in TaskIds : StartGetHandlerReturn(t, 0)
    \/ \E t \in TaskIds : StartConnectReturn(t, MaxFail)
    \/ \E t \in TaskIds : StartSubscribeReturn(t, 0)
    \/ \E t \in TaskIds : StartCleanupDisconnectReturn(t)
    \/ \E t \in TaskIds : StartCleanupShutdownReturn(t)
    \/ ReconBegin
    \/ ReconWake
    \/ \E t \in TaskIds, new \in SUBSET Symbols :
          CallUpdate(t, new) /\ tasks'[t].res # "fail"
    \/ \E t \in TaskIds :
          UpdateUnsubscribeReturn(t) /\ tasks'[t].res # "fail"
    \/ \E t \in TaskIds :
          /\ UpdateSubscribeReturn(t)
          /\ clientConnected
          /\ tasks'[t].res # "fail"
          /\ tasks[t].cur \in Keys(subscription_ids')

SpecAccepting == Init /\ [][NextAccepting]_vars

----------------------------------------------------------------------------
(***************************************************************************)
(* The handlers of one daemon and the ExchangeQueue factory they share,    *)
(* exchange_handler.py lines 56-117 (start), 119-169 (stop) and 301-314    *)
(* (_cleanup).  Each handler is taken by its status, its own               *)
(* _factory_initialized flag and its pending await; get_handler, connect   *)
(* and the subscriptions of start are one await here, and so are the       *)
(* unsubscriptions and the disconnect of stop.  The callers (the daemon's  *)
(* start and stop, its supervisor loop) call one operation of a handler at *)
(* a time; the reconnection tasks are those of the handler model above.    *)
(***************************************************************************)

\* The awaits of ExchangeQueue.shutdown_factory(), in stop and in _cleanup.
ShutdownAwaits == {"st_shutdown", "cl_shutdown"}

\* Lines 66-74: start() of handler e is called and runs up to its first
\* await.
FStartCall(e) ==
    /\ fh[e].pc = "idle"
    /\ ~StartReturnsEarly(fh[e].status)
    /\ fh' = [fh EXCEPT ![e].status = "connecting",
                        ![e].pc = IF fh[e].fi THEN "connect"
                                  ELSE "init_factory"]
    /\ UNCHANGED factory
    /\ UNCHANGED exceptF

\* Lines 73-75: initialize_factory() returns and the handler sets its
\* flag, or raises: the except clause (106-117) finds no client and no
\* flag, and start raises.
FInitFactoryReturn(e) ==
    /\ fh[e].pc = "init_factory"
    /\ \/ /\ factory' = TRUE
          /\ fh' = [fh EXCEPT ![e].fi = TRUE, ![e].pc = "connect"]
       \/ /\ fh' = [fh EXCEPT ![e].status = "error", ![e].pc = "idle"]
          /\ UNCHANGED factory
    /\ UNCHANGED exceptF

\* Lines 78-99: the handler is connected and subscribed, or a call raised:
\* lines 106-114 and _cleanup (303-311) up to the await of
\* shutdown_factory(), which _cleanup calls because the flag is set.
FConnectReturn(e) ==
    /\ fh[e].pc = "connect"
    /\ \/ fh' = [fh EXCEPT ![e].status = "connected", ![e].pc = "idle"]
       \/ fh' = [fh EXCEPT ![e].status = "error", ![e].pc = "cl_shutdown"]
    /\ UNCHANGED factory
    /\ UNCHANGED exceptF

\* _cleanup, lines 309-314: shutdown_factory() returns and the flag is
\* reset, or raises (ignored); start raises.
FCleanupShutdownReturn(e) ==
    /\ fh[e].pc = "cl_shutdown"
    /\ \/ /\ factory' = FALSE
          /\ fh' = [fh EXCEPT ![e].fi = FALSE, ![e].pc = "idle"]
       \/ /\ fh' = [fh EXCEPT ![e].pc = "idle"]
          /\ UNCHANGED factory
    /\ UNCHANGED exceptF

\* Lines 129-156: stop() of handler e is called.  The unsubscriptions and
\* the disconnect change nothing here; they are awaited on the way to
\* shutdown_factory(), and a handler whose flag is not set goes to the
\* finally clause (163-165).
FStopCall(e) ==
    /\ fh[e].pc = "idle"
    /\ fh[e].status # "disconnected"
    /\ IF fh[e].fi
       THEN fh' = [fh EXCEPT ![e].pc = "st_disconnect"]
       ELSE fh' = [fh EXCEPT ![e].status = "disconnected"]
    /\ UNCHANGED factory
    /\ UNCHANGED exceptF

\* Lines 144-161: disconnect() returned or raised (logged); the flag is
\* set, and stop awaits shutdown_factory().
FStopDisconnectReturn(e) ==
    /\ fh[e].pc = "st_disconnect"
    /\ fh' = [fh EXCEPT ![e].pc = "st_shutdown"]
    /\ UNCHANGED factory
    /\ UNCHANGED exceptF

\* Lines 158-169: shutdown_factory() returns and the flag is reset, or
\* raises; the finally clause sets the status.
FStopShutdownReturn(e) ==
    /\ fh[e].pc = "st_shutdown"
    /\ \/ /\ factory' = FALSE
          /\ fh' = [fh EXCEPT ![e].status = "disconnected",
                              ![e].fi = FALSE, ![e].pc = "idle"]
       \/ /\ fh' = [fh EXCEPT ![e].status = "disconnected", ![e].pc = "idle"]
          /\ UNCHANGED factory
    /\ UNCHANGED exceptF

NextFactory ==
    \/ \E e \in Exchanges : FStartCall(e)
    \/ \E e \in Exchanges : FInitFactoryReturn(e)
    \/ \E e \in Exchanges : FConnectReturn(e)
    \/ \E e \in Exchanges : FCleanupShutdownReturn(e)
    \/ \E e \in Exchanges : FStopCall(e)
    \/ \E e \in Exchanges : FStopDisconnectReturn(e)
    \/ \E e \in Exchanges : FStopShutdownReturn(e)

SpecFactory == InitLife /\ [][NextFactory]_vars

----------------------------------------------------------------------------
(***************************************************************************)
(* The ticks counted and the ticks written, ticker_manager.py:             *)
(* process_ticker (38-123), process_ticker_batch (350-416) and             *)
(* process_ticker_batch_with_validation (462-545), with both ways of       *)
(* writing a batch: cache.set_tickers_batch when the TickCache object of   *)
(* the call has it (lines 393, 529), and the per-tick fallback.            *)
(***************************************************************************)

exceptTW ==
    <<hvars, dvars, svars, evars, cvars, rvars, bvars, lvars, fvars, kvars>>

\* Lines 82-92: cache.set_ticker of process_ticker returned, and the tick
\* is written and counted, or raised.
CountSetTickerReturn(c) ==
    /\ \E stored \in BOOLEAN :
          /\ SetTickerReturned(c, stored)
          /\ written' = IF stored
                        THEN [written EXCEPT ![mcalls[c].ex] = @ + 1]
                        ELSE written
    /\ UNCHANGED exceptTW

\* Lines 350-398 and 462-533: a batch of which n ticks are valid, up to
\* the first await of the cache: set_tickers_batch when the cache object
\* has it (backend), else the gather of the set_ticker calls (line 398) or
\* the first set_ticker of the loop (lines 532-533).  For a batch written
\* tick by tick, attempts counts the set_ticker calls made.
BatchCall(c, e, n, op, backend) ==
    /\ mcalls[c].op = "none"
    /\ \A d \in MCallIds : d < c => mcalls[d].op # "none"
    /\ LET r == [NoMCall EXCEPT !.op = op, !.ex = e, !.n = n]
       IN  mcalls' = [mcalls EXCEPT ![c] =
              IF n = 0 THEN [r EXCEPT !.pc = "done", !.res = "returned"]
              ELSE IF backend THEN [r EXCEPT !.pc = "set_batch"]
              ELSE IF op = "batch" THEN [r EXCEPT !.pc = "gather"]
              ELSE [r EXCEPT !.pc = "set_each", !.attempts = 1]]
    /\ UNCHANGED <<ticker_count, error_counts, recovery_counts,
                   latency_samples>>
    /\ UNCHANGED exceptT

\* Lines 394-416 and 530-545: set_tickers_batch stored the batch, and the
\* ticks are counted (process_ticker_batch appends its latency sample), or
\* raised, which both operations log.
BatchBackendReturn(c) ==
    /\ mcalls[c].pc = "set_batch"
    /\ \/ /\ written' = [written EXCEPT ![mcalls[c].ex] = @ + mcalls[c].n]
          /\ ticker_count' = [ticker_count EXCEPT
                                ![mcalls[c].ex] = @ + mcalls[c].n]
          /\ latency_samples' =
                IF mcalls[c].op = "batch"
                THEN [latency_samples EXCEPT ![mcalls[c].ex] = @ + 1]
                ELSE latency_samples
       \/ UNCHANGED <<written, ticker_count, latency_samples>>
    /\ mcalls' = [mcalls EXCEPT ![c].pc = "done", ![c].res = "returned"]
    /\ UNCHANGED <<error_counts, recovery_counts>>
    /\ UNCHANGED exceptTW

\* Lines 396-409: the gather of the n set_ticker calls returned, k of them
\* having stored their tick; with return_exceptions=True (line 398) the
\* exceptions of the others are results and the gather does not raise: the
\* n ticks are counted and the latency sample appended.
BatchGatherReturn(c) ==
    /\ mcalls[c].pc = "gather"
    /\ \E k \in 0..mcalls[c].n :
          /\ written' = [written EXCEPT ![mcalls[c].ex] = @ + k]
          /\ ticker_count' = [ticker_count EXCEPT
                                ![mcalls[c].ex] = @ + mcalls[c].n]
          /\ latency_samples' = [latency_samples EXCEPT
                                   ![mcalls[c].ex] = @ + 1]
    /\ mcalls' = [mcalls EXCEPT ![c].pc = "done", ![c].res = "returned"]
    /\ UNCHANGED <<error_counts, recovery_counts>>
    /\ UNCHANGED exceptTW

\* Lines 532-545: a set_ticker of the loop stored its tick, and the loop
\* goes on or the n ticks are counted; or it raised, which is logged.
BatchEachReturn(c) ==
    /\ mcalls[c].pc = "set_each"
    /\ \/ /\ written' = [written EXCEPT ![mcalls[c].ex] = @ + 1]
          /\ IF mcalls[c].attempts < mcalls[c].n
             THEN /\ mcalls' = [mcalls EXCEPT ![c].attempts = @ + 1]
                  /\ UNCHANGED ticker_count
             ELSE /\ mcalls' = [mcalls EXCEPT ![c].pc = "done",
                                              ![c].res = "returned"]
                  /\ ticker_count' = [ticker_count EXCEPT
                                        ![mcalls[c].ex] = @ + mcalls[c].n]
       \/ /\ mcalls' = [mcalls EXCEPT ![c].pc = "done", ![c].res = "returned"]
          /\ UNCHANGED <<written, ticker_count>>
    /\ UNCHANGED <<error_counts, recovery_counts, latency_samples>>
    /\ UNCHANGED exceptTW

NextWritten ==
    \/ \E c \in MCallIds, e \in Exchanges, tick \in TickArgs :
          TMCallProcess(c, e, tick)
    \/ \E c \in MCallIds : CountSetTickerReturn(c)
    \/ \E c \in MCallIds, e \in Exchanges, n \in 0..MaxBatch,
          op \in {"batch", "batch_validated"}, backend \in BOOLEAN :
          BatchCall(c, e, n, op, backend)
    \/ \E c \in MCallIds : BatchBackendReturn(c)
    \/ \E c \in MCallIds : BatchGatherReturn(c)
    \/ \E c \in MCallIds : BatchEachReturn(c)

SpecWritten == InitRetry /\ [][NextWritten]_vars

----------------------------------------------------------------------------
(***************************************************************************)
(* LiveTickerCollector.start_collection (live_collector.py lines 38-69),   *)
(* _load_data (123-152), _start_exchange_collector (154-228) and           *)
(* stop_collection (70-76).  In the record of the call, todo holds the     *)
(* exchanges still to start, loaded tells whether self.symbols is          *)
(* non-empty, and res how the last call ended.  The registrations and      *)
(* subscriptions of one exchange are one step: their errors are caught     *)
(* per symbol (lines 212-216).                                             *)
(***************************************************************************)

\* Number of start_collection calls in a run.
MaxCollectorStarts == 5

\* Lines 66-68: the except clause logs and re-raises; self.running stays
\* as line 44 set it.
LCRaise ==
    /\ starting' = [starting EXCEPT !.pc = "idle", !.todo = {},
                                    !.res = "raised"]
    /\ UNCHANGED <<collector_running, nStartups>>

\* Lines 50-64: the loop over the exchanges that have symbols and an admin
\* exchange, up to the await of get_websocket_handler (line 167), or the
\* end of start_collection.
LCLoop(r, T) ==
    /\ starting' = IF T = {}
                   THEN [r EXCEPT !.pc = "idle", !.todo = {},
                                  !.res = "returned"]
                   ELSE [r EXCEPT !.pc = "get_websocket_handler", !.todo = T]
    /\ UNCHANGED <<collector_running, nStartups>>

\* Lines 40-48 and 125-129: start_collection() is called: it returns at
\* once when the collector is marked as running, else it marks it and
\* calls _load_data, up to the await of get_user_id.
LCStartCall ==
    /\ starting.pc = "idle"
    /\ nStartups.calls < MaxCollectorStarts
    /\ IF collector_running
       THEN /\ starting' = [starting EXCEPT !.res = "already"]
            /\ nStartups' = [nStartups EXCEPT !.calls = @ + 1]
            /\ UNCHANGED collector_running
       ELSE /\ collector_running' = TRUE
            /\ starting' = [starting EXCEPT !.pc = "get_user_id",
                                            !.res = "none"]
            /\ nStartups' = [loads |-> nStartups.loads + 1,
                             calls |-> nStartups.calls + 1]
    /\ UNCHANGED exceptK

\* Lines 129-134: get_user_id returned the admin's id, or returned none
\* (ValueError, line 131), or raised.
LCUserIdReturn ==
    /\ starting.pc = "get_user_id"
    /\ \/ /\ starting' = [starting EXCEPT !.pc = "get_user_exchanges"]
          /\ UNCHANGED <<collector_running, nStartups>>
       \/ LCRaise
    /\ UNCHANGED exceptK

\* Lines 134-152: get_user_exchanges returned; the symbols are read when
\* the collector has none, else they are grouped and the loop begins.
LCUserExchangesReturn ==
    /\ starting.pc = "get_user_exchanges"
    /\ \/ IF starting.loaded
          THEN \E T \in SUBSET Exchanges : LCLoop(starting, T)
          ELSE /\ starting' = [starting EXCEPT !.pc = "get_all"]
               /\ UNCHANGED <<collector_running, nStartups>>
       \/ LCRaise
    /\ UNCHANGED exceptK

\* Lines 137-152: db.symbols.get_all() returned the symbols (or none), or
\* raised.
LCGetAllReturn ==
    /\ starting.pc = "get_all"
    /\ \/ \E T \in SUBSET Exchanges :
             LCLoop([starting EXCEPT !.loaded = T # {}], T)
       \/ LCRaise
    /\ UNCHANGED exceptK

\* Lines 165-228 and 50-64: get_websocket_handler returned, the symbols of
\* the exchange are registered and subscribed, and the loop goes on; or it
\* raised, which line 228 re-raises.
LCHandlerReturn ==
    /\ starting.pc = "get_websocket_handler"
    /\ \/ \E e \in starting.todo : LCLoop(starting, starting.todo \ {e})
       \/ LCRaise
    /\ UNCHANGED exceptK

\* stop_collection, lines 70-76.
LCStopCall ==
    /\ starting.pc = "idle"
    /\ collector_running
    /\ collector_running' = FALSE
    /\ UNCHANGED <<starting, nStartups>>
    /\ UNCHANGED exceptK

NextLive ==
    \/ LCStartCall
    \/ LCUserIdReturn
    \/ LCUserExchangesReturn
    \/ LCGetAllReturn
    \/ LCHandlerReturn
    \/ LCStopCall

SpecLive == InitLife /\ [][NextLive]_vars

----------------------------------------------------------------------------
(***************************************************************************)
(* Statements about update_symbols, on SpecUpdate.                         *)
(***************************************************************************)

\* No coroutine is inside an operation of the handler.
Quiescent == \A t \in TaskIds : tasks[t].op = "idle"

\* C1: update_symbols(desired) on a Connected handler issues exactly one
\* unsubscribe for each symbol of the Active Subscription Set that is not in
\* desired, exactly one subscribe_ticker for each symbol of desired that is
\* not in the set, and no other call; update_symbols(current) issues none.
\* Stated at the step on which a call of update_symbols returns: nothing is
\* still owed and nothing beyond the difference was issued.
C1_UpdateIssuesExactlyTheDiff ==
    [][ /\ \A t \in TaskIds :
              tasks[t].op = "update" /\ tasks'[t].op = "idle"
              => /\ tasks[t].owedU = {}
                 /\ tasks[t].owedS = {}
                 /\ ~tasks[t].extra
        /\ (calls' # calls /\ status = "connected" /\ tasks' = tasks)
              => Keys(subscription_ids) = symbols' ]_vars

\* C2, as stated: when the update_symbols calls have returned, the Active
\* Subscription Set equals desired (the argument of the last call) restricted
\* to the symbols successfully subscribed, and holds no symbol successfully
\* unsubscribed and not subscribed again.
C2_SetEqualsDesiredSubscribed ==
    (Quiescent /\ calls > 0)
    => /\ Keys(subscription_ids) =
             symbols \cap {s \in Symbols : lastOk[s] \in {"sub", "unsub"}}
       /\ \A s \in Keys(subscription_ids) : lastOk[s] # "unsub"

\* C2, amended: in every state the Active Subscription Set is the set of
\* symbols whose last successful client call was a subscribe_ticker: every
\* member was successfully subscribed, none was successfully unsubscribed
\* since, and a symbol whose unsubscribe failed stays in the set although it
\* is not in desired.
C2_SetIsLastSubscribed ==
    Keys(subscription_ids) = {s \in Symbols : lastOk[s] = "sub"}

\* C2 witness: the calls have returned, one symbol was unsubscribed and
\* deleted, and another is still in the set, outside the intended symbols,
\* because its unsubscribe failed.
C2_Witness ==
    /\ Quiescent /\ calls > 0
    /\ \E s \in Symbols : lastOk[s] = "unsub" /\ s \notin Keys(subscription_ids)
    /\ \E s \in Keys(subscription_ids) : s \notin symbols

----------------------------------------------------------------------------
(***************************************************************************)
(* Statements about the lifecycle, on SpecLife and SpecDown.               *)
(***************************************************************************)

\* C3: whenever no operation of the handler is in progress, every symbol
\* recorded in the Active Subscription Set has a live subscription on a
\* connected client, and the set is empty when the handler is Disconnected.
C3_RecordedSubscriptionsAreLive ==
    Quiescent
    => /\ \A i \in 1..Len(subscription_ids) :
              subscription_ids[i].live /\ clientConnected
       /\ status = "disconnected" => subscription_ids = <<>>

\* C4: on the step on which a start() whose connect or subscribe_ticker
\* raised returns, the handler has called disconnect, its Active
\* Subscription Set is empty, its state is Error and a reconnection task has
\* been created.
C4_FailedStartCleansUp ==
    [][\A t \in TaskIds :
          ( /\ tasks[t].op = "start"
            /\ tasks[t].res \in {"connect", "subscribe"}
            /\ tasks'[t].op = "idle" )
          => /\ tasks[t].disc
             /\ subscription_ids' = <<>>
             /\ status' = "error"
             /\ nSched' > nSched ]_vars

\* C5: while the reconnection attempts keep failing the reconnect counter
\* never exceeds 10.
C5_AtMostTenAttempts == reconnect_count <= MaxReconnectAttempts

\* C6: once stop() has returned with a reconnection in its backoff sleep,
\* the state stays Disconnected and no start begins until a caller calls.
C6_StopCancelsReconnection ==
    [][ ( /\ status = "disconnected"
          /\ Quiescent
          /\ nSleep > 0
          /\ calls' = calls )
        => status' = "disconnected" /\ tasks' = tasks ]_vars

ReconnectSucceeds ==
    \/ nSleep' < nSleep /\ tasks' = tasks
    \/ \E t \in TaskIds : /\ tasks[t].op = "start" /\ tasks[t].recon
                           /\ tasks'[t].op = "idle"
                           /\ nSched' = nSched

\* C8: when a reconnection attempt succeeds the state is Connected, the
\* reconnect counter is 0 and every intended symbol has a recorded
\* subscription.
C8_ReconnectSuccessRestoresAll ==
    [][ ReconnectSucceeds
        => /\ status' = "connected"
           /\ reconnect_count' = 0
           /\ symbols' \subseteq Keys(subscription_ids') ]_vars

\* C9: stop() on a handler that is not Disconnected issues exactly one
\* unsubscribe for each handle of the Active Subscription Set, then
\* disconnects, and returns with state Disconnected and an empty set.
\* Stated at the step on which a call of stop returns.
C9_StopUnsubscribesAll ==
    [][ /\ \A t \in TaskIds :
              tasks[t].op = "stop" /\ tasks'[t].op = "idle"
              => /\ tasks[t].owedU = {}
                 /\ ~tasks[t].extra
                 /\ tasks[t].disc
                 /\ subscription_ids' = <<>>
                 /\ status' = "disconnected"
        /\ ( /\ calls' # calls
             /\ status # "disconnected" /\ status' = "disconnected" )
              => subscription_ids = <<>> ]_vars

----------------------------------------------------------------------------
(***************************************************************************)
(* Statements about the daemon, on SpecDaemon.                             *)
(***************************************************************************)

\* The calls that hold the daemon lock: at most one, the one the lock names.
InBody == {c \in Callers : callers[c].pc \in
              {"init", "register", "stop_handlers", "gather", "unregister"}}

Serialized == InBody = IF lock = 0 THEN {} ELSE {lock}

\* Between calls the daemon is either running, with each of its handlers
\* started once, the three background tasks created once and the process
\* registered k times, or stopped, with nothing left of these.
OnceEach(k) ==
    lock = 0
    => IF running
       THEN /\ bg_tasks /\ spawned = 3
            /\ entries = k
            /\ \A e \in Exchanges :
                  started[e] = IF e \in exchange_handlers THEN 1 ELSE 0
       ELSE /\ spawned = 0
            /\ entries = 0 /\ ~process_id
            /\ exchange_handlers = {}
            /\ \A e \in Exchanges : started[e] = 0

\* A call that returns at its first line is a start() on a running daemon
\* or a stop() on a stopped one, and changes nothing.
NoOpCalls ==
    \A c \in Callers :
        callers[c].pc \in {"idle", "wait"} /\ callers'[c].pc = "done"
        => /\ running <=> callers'[c].op = "start"
           /\ UNCHANGED <<daemon_status, running, exchange_handlers,
                          process_id, bg_tasks, entries, started, spawned>>

C11_ProcessTickerReturns ==
    \A c \in Callers :
        ~(callers[c].op = "process" /\ callers[c].pc = "stop_lock" /\ lock = c)

\* C12: a start() during which no exchange handler started (the handler
\* initialisation returned with no handler stored) ends with the daemon in
\* status Error, not running, and with no process-health entry registered.
C12_NoHandlerMeansError ==
    [][\A c \in Callers :
          (/\ callers[c].op = "start"
           /\ callers[c].pc = "register"
           /\ exchange_handlers = {}
           /\ callers'[c].pc \in {"done", "raised"})
          => (/\ daemon_status' = "error"
              /\ ~running'
              /\ entries' = entries)]_vars

\* C13: while the daemon runs, the supervisor stops a handler only when it
\* is in Error, has started again every handler it stopped when a tick is
\* over, and has looked at every handler in that tick, whatever restart
\* failed.
C13_ErrorHandlersRestarted ==
    [][/\ \A e \in Exchanges : nStop'[e] > nStop[e] => hstatus[e] = "error"
       /\ sup'.pc = "sleep" =>
             /\ \A e \in Exchanges : nStart'[e] = nStop'[e]
             /\ ticks' > 0 => checked' = exchange_handlers']_vars

----------------------------------------------------------------------------
(***************************************************************************)
(* Statements about the processing of events, on SpecEvents.               *)
(***************************************************************************)

\* The newest event of the stream of symbol s whose tick was stored.
NewestStored(s) ==
    LET W == {i \in 1..Len(events) : events[i].sym = s /\ procs[i].wrote}
    IN  IF W = {} THEN 0 ELSE CHOOSE i \in W : \A j \in W : j <= i

\* C14: for the events of one (exchange, symbol) stream, the cache entry
\* holds the tick of the newest event stored so far, whatever the overlap
\* of their processing: it never goes back from a newer event to an older
\* one, and holds the tick of e2 once e1 and e2 are processed.
C14_CacheHoldsNewest ==
    \A s \in Symbols : cache[s] = NewestStored(s)

\* The event was delivered with neither "price" nor "last".
Priceless(i) == i <= Len(events) /\ ~events[i].price /\ ~events[i].last

\* C15: when the per-tick callback raises, the exception stays inside the
\* event processing, which still performs the handler's own cache write
\* for a valid event, and the processing leaves the connection state, the
\* subscription set and the reconnect counter as they were.
C15_CallbackErrorContained ==
    [][/\ \A i \in 1..Len(events') :
             procs'[i].raised =>
                /\ procs'[i].res # "raised"
                /\ TickBuilt(events'[i]) => procs'[i].tried
       /\ procs' # procs =>
             UNCHANGED <<status, subscription_ids, reconnect_count>>]_vars

\* A callback raised and the tick of its event is in the cache.
C15_Witness ==
    \E i \in 1..Len(events) :
        procs[i].raised /\ procs[i].wrote /\ cache[events[i].sym] = i

\* C16: an event with neither price nor last is dropped: its processing
\* writes no tick to the cache, leaves the Ticker Manager's tick count and
\* the connection state as they were, and ends without an exception.
C16_PricelessEventDropped ==
    [][\A i \in 1..Len(events') :
          Priceless(i)' =>
             /\ ~procs'[i].tried /\ ~procs'[i].wrote
             /\ procs'[i].res # "raised"
             /\ procs'[i] # procs[i] =>
                   UNCHANGED <<cache, ticker_count, status>>]_vars

\* An event with neither price nor last went through the handler whose
\* callback is the Ticker Manager's.
C16_Witness ==
    \E i \in 1..Len(events) :
        Priceless(i) /\ procs[i].pc = "done" /\ ticker_callback = "manager"

----------------------------------------------------------------------------
(***************************************************************************)
(* Statements about the Ticker Manager, on SpecManager.                    *)
(***************************************************************************)

\* C17: when the cache write fails inside a plain process_ticker call, the
\* error count of the exchange goes up by one, its tick count and latency
\* window stay as they were, and the call raises.
C17_PlainFailureCounted ==
    [][\A c \in MCallIds :
          (/\ mcalls[c].op = "process"
           /\ mcalls[c].pc = "set_ticker"
           /\ mcalls'[c].pc = "done"
           /\ mcalls'[c].fails = 1)
          => (/\ mcalls'[c].res = "raised"
              /\ error_counts'[mcalls[c].ex] = error_counts[mcalls[c].ex] + 1
              /\ ticker_count' = ticker_count
              /\ latency_samples' = latency_samples)]_vars

\* C18: after any sequence of process_ticker, process_ticker_batch and
\* process_ticker_batch_with_validation calls, the latency window of each
\* exchange holds at most 1000 samples.
C18_LatencyWindowBounded ==
    \A e \in Exchanges : latency_samples[e] <= MaxLatencySamples

\* The increments g[c] of the calls c in C taken together.
RECURSIVE SumOver(_, _)
SumOver(C, g) ==
    IF C = {} THEN 0
    ELSE LET c == CHOOSE x \in C : TRUE IN g[c] + SumOver(C \ {c}, g)

RetryCalls(e) == {c \in MCallIds : mcalls[c].op = "retry" /\ mcalls[c].ex = e}

\* C19: process_ticker_with_retry invokes process_ticker at most
\* max_retries times and sleeps 2^k seconds after its k-th failed attempt
\* before the next one; it returns at the first success, adding one to the
\* recovery count exactly when an attempt had failed before; it adds one to
\* the error count per failed attempt and raises after max_retries failures
\* in a row.
C19_RetryWrapper ==
    /\ \A c \in MCallIds :
          LET r == mcalls[c]
          IN  r.op = "retry" =>
                /\ r.attempts <= r.max
                /\ r.sleeps = [k \in 1..Len(r.sleeps) |-> 2 ^ k]
                /\ Len(r.sleeps) = IF r.res = "raised" THEN r.fails - 1
                                   ELSE r.fails
                /\ r.errs = r.fails
                /\ r.res = "returned" =>
                      /\ r.attempts = r.fails + (IF r.max > 0 THEN 1 ELSE 0)
                      /\ r.recs = IF r.fails > 0 THEN 1 ELSE 0
                /\ r.res = "raised" =>
                      r.fails = r.max /\ r.attempts = r.max /\ r.recs = 0
                /\ r.res = "none" => r.recs = 0
    /\ \A e \in Exchanges :
          /\ error_counts[e] =
                SumOver(RetryCalls(e), [c \in MCallIds |-> mcalls[c].errs])
          /\ recovery_counts[e] =
                SumOver(RetryCalls(e), [c \in MCallIds |-> mcalls[c].recs])

\* A call with the default max_retries that succeeded at its third attempt,
\* after sleeps of 2 and 4 seconds.
C19_Witness ==
    \E c \in MCallIds :
        /\ mcalls[c].op = "retry"
        /\ mcalls[c].max = DefaultMaxRetries
        /\ mcalls[c].res = "returned"
        /\ mcalls[c].fails = 2
        /\ mcalls[c].sleeps = <<2, 4>>
        /\ recovery_counts[mcalls[c].ex] = 1

----------------------------------------------------------------------------
(***************************************************************************)
(* Statements about the collector's ticker callback, on SpecCollector.     *)
(***************************************************************************)

\* C20: for each (exchange, symbol) key, two per-subscription health
\* updates to Running are never issued less than 30 seconds apart, whatever
\* the interleaving of the tick callbacks of the key, callbacks that overlap
\* an update in flight included.
C20_RunningUpdatesRateLimited ==
    \A s \in Symbols :
        \A i, j \in 1..Len(issued[s]) :
            i < j => issued[s][j] - issued[s][i] >= RateLimit

----------------------------------------------------------------------------
(***************************************************************************)
(* Statements about the symbol refresh, on SpecRefresh.                    *)
(***************************************************************************)

\* The exchanges of the symbol map the refresh read.
Mapped == {refresh.map[i].ex : i \in 1..Len(refresh.map)}

\* The refresh iteration is over.
RefreshOver == refresh.pc = "sleep" /\ nRefresh > 0

\* C21: in a refresh, update_symbols is called for every exchange of the
\* symbol map that has a handler, whichever of these calls raised, and the
\* daemon stays Running.
C21_RefreshIsolatesHandlerErrors ==
    /\ RefreshOver => updated = Mapped \cap exchange_handlers
    /\ running /\ daemon_status = "running"

\* The update of the first handler raised and the second was updated.
C21_Witness ==
    /\ RefreshOver
    /\ upFailed = {HandlerOrder[1]}
    /\ updated = {HandlerOrder[1], HandlerOrder[2]}

\* C22: a refresh iteration in which a query of the configuration store
\* failed calls update_symbols on no handler and leaves the daemon Running
\* with the symbols of its handlers as they were, the loop back in its
\* sleep for the next interval.
C22_FailedQuerySkipsIteration ==
    refresh.failed =>
        /\ updated = {}
        /\ hsymbols = refresh.h0
        /\ running /\ daemon_status = "running"
        /\ refresh.pc \in {"sleep", "cat_exchanges", "symbols"}

----------------------------------------------------------------------------
(***************************************************************************)
(* Statements about the initialization of the handlers, on SpecBoot.       *)
(***************************************************************************)

\* The initialization of a start() has returned to it.
BootReturned == boot.pc = "returned"

\* C23: during TickerDaemon.start() the symbol list is read from the
\* configuration store exactly once, however many exchanges are
\* configured: an initialization that started a handler has made one read.
C23_SymbolListReadOnce ==
    BootReturned /\ boot.ok # {} => boot.reads = 1

\* C24: a handler.start() that raises during TickerDaemon.start() does not
\* end the initialization, and a start() whose initialization returned with
\* some handlers started and some failed completes with the daemon Running
\* and with exactly the started handlers in its handler map.
C24_PartialStartRuns ==
    [][\A c \in Callers :
          /\ (boot.pc = "hstart" /\ boot'.bad # boot.bad
                 => /\ boot'.pc \in {"cat", "db_exit"}
                    /\ callers'[c] = callers[c]
                    /\ daemon_status' = "starting"
                    /\ exchange_handlers' = boot.ok)
          /\ ((/\ callers[c].pc = "register" /\ callers'[c].pc # "register"
                /\ boot.ok # {} /\ boot.bad # {})
                 => /\ callers'[c].pc = "done"
                    /\ running' /\ daemon_status' = "running"
                    /\ exchange_handlers' = boot.ok)]_vars

\* start() has completed Running after one handler started and the other
\* failed to start.
C24_Witness ==
    /\ \E c \in Callers : callers[c].op = "start" /\ callers[c].pc = "done"
    /\ boot.pc = "returned" /\ boot.ok # {} /\ boot.bad # {}
    /\ running /\ daemon_status = "running"
    /\ exchange_handlers = boot.ok

----------------------------------------------------------------------------
(***************************************************************************)
(* Statements about TickerDaemon.process_ticker, on SpecProcess.           *)
(***************************************************************************)

\* The daemon is neither stopped nor Running.
Intermediate == daemon_status \in {"starting", "stopping", "error"}

\* Caller c enters the body of process_ticker in this step.
ProcessEnters(c) ==
    /\ callers[c].pc \in {"idle", "wait"}
    /\ callers'[c].op = "process"
    /\ callers'[c].pc \notin {"idle", "wait"}

\* C25: process_ticker on a daemon in an intermediate state refuses and
\* changes no daemon state: the status, the running flag, the handlers
\* and the registration stay as they were, and the call goes no further.
C25_ProcessRefusedInIntermediateState ==
    [][\A c \in Callers :
          ProcessEnters(c) /\ Intermediate
             => /\ UNCHANGED <<daemon_status, running, exchange_handlers,
                               process_id, started>>
                /\ callers'[c].pc \notin {"pt_register", "pt_start",
                                           "stop_lock"}]_vars

----------------------------------------------------------------------------
(***************************************************************************)
(* Statements about calls that meet a handler in a given state, on         *)
(* SpecIdem and SpecNoted.                                                 *)
(***************************************************************************)

\* The call logged in this step, if any.
CallMade == Len(callLog') = Len(callLog) + 1

LastCall == callLog'[Len(callLog')]

\* Nothing of the handler but its count of calls changes, so that no
\* coroutine is left pending on a call of the factory or of the client.
HandlerUntouched ==
    UNCHANGED <<status, reconnect_count, symbols, handler, subscription_ids,
                factory_initialized, clientConnected, tasks, nSched, nSleep,
                failures, lastOk>>

\* C26: start() on a Connected handler and stop() on a Disconnected one
\* are no-ops: the call leaves no coroutine pending on a factory, connect,
\* subscribe, unsubscribe or disconnect call and changes neither the
\* connection state, the subscriptions nor the reconnect counter.
C26_StartStopIdempotent ==
    [][CallMade /\ (\/ LastCall.op = "start" /\ LastCall.at = "connected"
                    \/ LastCall.op = "stop" /\ LastCall.at = "disconnected")
          => HandlerUntouched]_vars

\* A start() has met the handler Connected and a stop() has met it
\* Disconnected.
C26_Witness ==
    /\ \E i \in 1..Len(callLog) :
          callLog[i].op = "start" /\ callLog[i].at = "connected"
    /\ \E i \in 1..Len(callLog) :
          callLog[i].op = "stop" /\ callLog[i].at = "disconnected"

\* The last two calls were update_symbols(D), made on a Disconnected
\* handler with no operation in progress, and then start().
StartFollowsUpdate(D) ==
    /\ Len(callLog) >= 2
    /\ callLog[Len(callLog)].op = "start"
    /\ callLog[Len(callLog) - 1] =
           [op |-> "update", at |-> "disconnected", arg |-> D, quiet |-> TRUE]

\* The start() of task t enters its subscription loop in this step, or
\* completes with nothing to subscribe.
StartConnects(t) ==
    /\ tasks[t].op = "start" /\ tasks[t].pc = "connect"
    /\ \/ tasks'[t].pc = "subscribe"
       \/ tasks'[t].op = "idle" /\ status' = "connected"

\* The symbols the subscription loop of task t goes through.
ToSubscribe(t) ==
    IF tasks'[t].pc = "subscribe" THEN {tasks'[t].cur} \cup tasks'[t].todo
    ELSE {}

\* C27: update_symbols(desired) on a Disconnected handler stores desired as
\* the intended list and changes nothing else of the handler (no
\* coroutine is left pending on a subscribe or unsubscribe); the start()
\* that follows it subscribes exactly the symbols of desired.
C27_UpdateWhileDisconnected ==
    [][/\ (CallMade /\ LastCall.op = "update" /\ LastCall.at = "disconnected"
             => /\ symbols' = LastCall.arg
                /\ UNCHANGED <<status, reconnect_count, handler,
                               subscription_ids, factory_initialized,
                               clientConnected, tasks, nSched, nSleep,
                               failures, lastOk>>)
       /\ \A t \in TaskIds, D \in SUBSET Symbols :
             StartConnects(t) /\ StartFollowsUpdate(D)
                => ToSubscribe(t) = D]_vars

\* A handler constructed with both symbols was given one of them while
\* Disconnected, and the start() that followed has subscribed that one.
C27_Witness ==
    /\ StartFollowsUpdate({"ETH/USDT"})
    /\ status = "connected"
    /\ \A t \in TaskIds : tasks[t].op = "idle"
    /\ Keys(subscription_ids) = {"ETH/USDT"}

----------------------------------------------------------------------------
(***************************************************************************)
(* Statements about the backoff delay, on SpecBackoff.                     *)
(***************************************************************************)

\* C28: the sleep before reconnection attempt n, n being the reconnect
\* counter as incremented for the attempt, lasts min(2^n, 60) seconds:
\* 2, 4, 8, 16, 32, and 60 from the sixth attempt on.
C28_BackoffDelays ==
    LET n == backoff_delay.n
        d == backoff_delay.delay
    IN  n # 0 =>
           /\ n >= 1
           /\ n = 1 => d = 2
           /\ n = 2 => d = 4
           /\ n = 3 => d = 8
           /\ n = 4 => d = 16
           /\ n = 5 => d = 32
           /\ n >= 6 => d = 60

\* The sixth attempt sleeps 60 seconds.
C28_Witness == backoff_delay = [n |-> 6, delay |-> 60] /\ nSleep > 0

----------------------------------------------------------------------------
(***************************************************************************)
(* Statements about the tick counts, on SpecCount.                         *)
(***************************************************************************)

\* The process_ticker calls for exchange e that passed validation and
\* whose cache write succeeded.
CountedCalls(e) ==
    {c \in MCallIds : /\ mcalls[c].op = "process" /\ mcalls[c].ex = e
                      /\ mcalls[c].arg = "store"
                      /\ mcalls[c].res = "returned"}

\* get_ticker_stats, line 221: sum(self._ticker_count.values()).
TotalTickers == SumOver(Exchanges, ticker_count)

\* C29: after any interleaving of process_ticker calls, the tick count of
\* an exchange has grown by the number of its calls that passed validation
\* and whose cache write succeeded, and total_tickers is the sum of the
\* counts of the exchanges.
C29_CountsEverySuccess ==
    /\ \A e \in Exchanges : ticker_count[e] = Cardinality(CountedCalls(e))
    /\ TotalTickers =
          Cardinality(UNION {CountedCalls(e) : e \in Exchanges})

\* Every call of the run was for one exchange and was counted.
C29_Witness ==
    /\ \A c \in MCallIds : c \in CountedCalls("kraken")
    /\ ticker_count["kraken"] = MaxManagerCalls

----------------------------------------------------------------------------
(***************************************************************************)
(* Statements about the operations of one handler in progress, on Spec.    *)
(***************************************************************************)

\* The coroutines inside start, stop or update_symbols of the handler.
InProgress == {t \in TaskIds : tasks[t].op \in {"start", "stop", "update"}}

\* C30: start, stop and update_symbols of one handler are mutually
\* exclusive: at no time are two of them, or two invocations of one of
\* them, in progress on the handler.
C30_OperationsExclusive == Cardinality(InProgress) <= 1

----------------------------------------------------------------------------
(***************************************************************************)
(* Statements about the shutdown of the daemon, on SpecShutdown.           *)
(***************************************************************************)

\* stop() has begun to stop the handlers.
ShutdownBegun ==
    \E c \in Callers :
       /\ callers[c].op = "stop"
       /\ callers[c].pc \in {"stop_handlers", "gather", "unregister"}

\* C31: in TickerDaemon.stop() the refresh loop and the supervisor loop
\* are cancelled before any handler is stopped: once the shutdown of the
\* handlers has begun, neither loop calls stop, start or update_symbols on
\* a handler.
C31_LoopsCancelledBeforeHandlers ==
    [][ShutdownBegun => /\ nStop' = nStop
                        /\ nStart' = nStart
                        /\ updated' \subseteq updated]_vars

----------------------------------------------------------------------------
(***************************************************************************)
(* Statements about the handlers the daemon created, on SpecBoot.          *)
(***************************************************************************)

\* C32: every handler the daemon created that is not Disconnected is in
\* the daemon's handler map, so that stop() reaches it: a handler whose
\* start() raised during the daemon's start, which leaves it in Error with
\* a reconnection task created (exchange_handler.py lines 106-117), is in
\* the map.
C32_LiveHandlersAreMapped ==
    [][boot'.bad # boot.bad => boot'.bad \subseteq exchange_handlers']_vars

----------------------------------------------------------------------------
(***************************************************************************)
(* Statements about the subscriptions of a handler whose calls all         *)
(* succeed, on SpecAccepting.                                              *)
(***************************************************************************)

\* C33: when no subscribe or unsubscribe call fails, a Connected handler
\* with no operation in progress has a recorded subscription for exactly
\* its intended symbols, also when update_symbols was called while start()
\* was in progress.
C33_SubscriptionsMatchIntended ==
    status = "connected" /\ InProgress = {}
       => Keys(subscription_ids) = symbols

----------------------------------------------------------------------------
(***************************************************************************)
(* Statements about the reconnection tasks of a handler, on SpecDown.      *)
(***************************************************************************)

\* The reconnection tasks of the handler: created and not yet run, in
\* their backoff sleep, or inside the start() they called.
ReconTasks ==
    nSched + nSleep
      + Cardinality({t \in TaskIds : tasks[t].op = "start" /\ tasks[t].recon})

\* C34: at any time at most one reconnection task is scheduled or running
\* for the handler; a failed connection or reconnection attempt schedules
\* at most one follow-up attempt.
C34_OneReconnectionTask == ReconTasks <= 1

\* C35: the reconnect counter is reset to 0 only when the handler has
\* reached Connected; a reconnection attempt whose start() returned early
\* because another start was in progress does not reset it.
C35_ResetOnlyWhenConnected ==
    [][reconnect_count # 0 /\ reconnect_count' = 0
          => status' = "connected"]_vars

----------------------------------------------------------------------------
(***************************************************************************)
(* Statements about the delivery callback of _process_ticker, on           *)
(* SpecEvents.                                                             *)
(***************************************************************************)

\* C36: the per-tick delivery callback is invoked only for events that
\* normalize successfully; an event rejected as malformed is never passed
\* to the callback.
C36_CallbackOnlyForNormalized ==
    \A i \in 1..Len(events) :
       procs[i].pc = "callback" => TickBuilt(events[i])

----------------------------------------------------------------------------
(***************************************************************************)
(* Statements about repeated update_symbols calls, on SpecUpdate.          *)
(***************************************************************************)

\* update_symbols(symbols) is called, with the intended list as it is, on
\* a connected handler none of whose operations is in progress.
SameDesiredCalled ==
    /\ status = "connected"
    /\ InProgress = {}
    /\ calls' = calls + 1
    /\ symbols' = symbols
    /\ \A t \in TaskIds : tasks'[t].op = "update" => tasks'[t].new = symbols

\* C37: when a subscription failed during update_symbols and the desired
\* set stays the same, a later update_symbols(desired) retries the
\* subscription of every desired symbol that has none.
C37_FailedSubscribeRetried ==
    [][SameDesiredCalled
          => \A s \in symbols \ Keys(subscription_ids) :
                \E t \in TaskIds :
                   /\ tasks'[t].op = "update"
                   /\ tasks'[t].cur = s \/ s \in tasks'[t].todo]_vars

----------------------------------------------------------------------------
(***************************************************************************)
(* Statements about the shared ExchangeQueue factory, on SpecFactory.      *)
(***************************************************************************)

\* C38: no handler shuts down the shared factory, in stop() or in the
\* cleanup after a failed start, while another handler of the same daemon
\* is Connected.
C38_FactoryKeptWhileOthersConnected ==
    \A e \in Exchanges :
       fh[e].pc \in ShutdownAwaits
          => \A f \in Exchanges \ {e} : fh[f].status # "connected"

----------------------------------------------------------------------------
(***************************************************************************)
(* Statements about the tick count and the cache, on SpecWritten.          *)
(***************************************************************************)

\* C39: for each exchange, the tick count never exceeds the number of
\* ticks of that exchange that were written to the cache, across
\* process_ticker, process_ticker_batch (batch backend and per-tick
\* fallback) and process_ticker_batch_with_validation.
C39_CountAtMostWritten ==
    \A e \in Exchanges : ticker_count[e] <= written[e]

----------------------------------------------------------------------------
(***************************************************************************)
(* Statements about LiveTickerCollector.start_collection, on SpecLive.     *)
(***************************************************************************)

\* C40: when start_collection() fails, the collector is not left marked as
\* running, so that a later start_collection() performs the start-up
\* again instead of returning as already running.
C40_FailedStartNotRunning ==
    [][starting'.res = "raised" /\ starting.res # "raised"
          => ~collector_running']_vars

============================================================================
